---- MODULE Spec2Model ----
(***************************************************************************)
(* A state-machine model of bot.py, the Telegram authoring bot: the        *)
(* session (context.user_data), the manual article wizard, the             *)
(* AI-draft-to-publish flow, the free-text prompts and the publish         *)
(* pipeline.  Every handler of bot.py is one operator that maps the        *)
(* session it finds (and the outcomes of the external calls it makes) to   *)
(* the session it leaves and the ordered list of effects it had; the       *)
(* actions apply the handlers, and the properties are stated of every run  *)
(* a handler can make from a reachable state.                              *)
(*                                                                         *)
(* A session is a function whose DOMAIN is the set of keys present in the  *)
(* Python dict; a text is a sequence of tokens (a token is a chunk of      *)
(* characters, " " and "\n" being the whitespace tokens).                  *)
(***************************************************************************)
EXTENDS Integers, Sequences, FiniteSets, TLC

VARIABLES
    user_data,      \* user id -> session dict (context.user_data of that user;
                    \* in a private chat the chat id is the user id)
    settings,       \* the content of ai_settings.json
    CHANNEL_ID,     \* TELEGRAM_CHANNEL_ID, "" when not configured
    ADMIN_CHAT_ID,  \* ADMIN_CHAT_ID as a chat id, 0 when not configured
    update_queue,   \* the updates received and not yet handled, oldest first
    inflight        \* the handler suspended at an external call, if any

vars == <<user_data, settings, CHANNEL_ID, ADMIN_CHAT_ID, update_queue, inflight>>

-----------------------------------------------------------------------------
(* Bounds of the model.                                                    *)

\* Longest body (in tokens) a body text may produce in the model.
MaxBodyLen == 4
\* Most updates waiting in the update queue.
MaxQueue == 2
\* Most trends / extra topics the settings file holds in the model.
MaxTrends == 1

-----------------------------------------------------------------------------
(* Python values and dict operations.                                      *)

None == "None"
PyTrue == "True"
EmptyStr == <<>>
EmptyDict == [k \in {} |-> None]

Get(d, k) == IF k \in DOMAIN d THEN d[k] ELSE None
GetD(d, k, dflt) == IF k \in DOMAIN d THEN d[k] ELSE dflt
SetKey(d, k, v) == [x \in DOMAIN d \cup {k} |-> IF x = k THEN v ELSE d[x]]
Pop(d, k) == [x \in DOMAIN d \ {k} |-> d[x]]
\* d.get(k) == v for a string v, where the stored value may be None
Is(d, k, v) == k \in DOMAIN d /\ d[k] = v

IsSpace(c) == c \in {" ", "\n"}

RECURSIVE LStrip(_)
LStrip(s) == IF s # <<>> /\ IsSpace(Head(s)) THEN LStrip(Tail(s)) ELSE s

RECURSIVE RStrip(_)
RStrip(s) ==
    IF s # <<>> /\ IsSpace(s[Len(s)]) THEN RStrip(SubSeq(s, 1, Len(s) - 1)) ELSE s

\* str.strip()
Strip(s) == RStrip(LStrip(s))

\* ",".join(list)
RECURSIVE JoinComma(_)
JoinComma(l) ==
    IF l = <<>> THEN <<>>
    ELSE IF Len(l) = 1 THEN <<l[1]>>
    ELSE <<l[1], ",">> \o JoinComma(Tail(l))

InList(x, l) == \E i \in 1..Len(l) : l[i] = x

\* list.remove(x): removes the first occurrence
RECURSIVE ListRemove(_, _)
ListRemove(l, x) ==
    IF l = <<>> THEN <<>>
    ELSE IF Head(l) = x THEN Tail(l)
    ELSE <<Head(l)>> \o ListRemove(Tail(l), x)

-----------------------------------------------------------------------------
(* Program constants.                                                      *)

STEPS == <<"title", "body", "desc", "image", "category", "tags">>

\* The reply-keyboard labels of main_reply_keyboard, each one token.
LBL_NEW    == <<"Yangi maqola">>
LBL_FINISH == <<"Matn tugadi">>
LBL_RECENT == <<"Oxirgi postlar">>
LBL_STATUS == <<"Holat">>
LBL_BACK   == <<"Orqaga">>
LBL_SKIP   == <<"Skip rasm">>
LBL_CANCEL == <<"Bekor">>
Labels == {LBL_NEW, LBL_FINISH, LBL_RECENT, LBL_STATUS, LBL_BACK, LBL_SKIP, LBL_CANCEL}

\* The catalog GET meta returns.
MetaCategories == <<"c1", "c2">>
MetaTags == <<"t1", "t2">>

\* The settings load_ai_settings falls back to.
DefaultSettings ==
    [instructions |-> <<"AI_POST_INSTRUCTIONS">>, trends |-> <<>>, topics |-> <<"AI_TOPICS">>]

-----------------------------------------------------------------------------
(* What a handler run leaves: the session, the settings file, the ordered  *)
(* effects (tr), the create-post payloads it sent (post), the step it      *)
(* showed to the user (shown), the backend's response text as sent on to   *)
(* the administrator (admin_text) and the posts send_post_to_channel sent  *)
(* to the channel (caption).                                               *)

Res(ud, st, tr) ==
    [ud |-> ud, st |-> st, tr |-> tr, post |-> <<>>, shown |-> "", admin_text |-> <<>>,
     caption |-> <<>>]

\* error_handler: runs when a handler lets an exception escape.
error_handler(chat, admin, channel) ==
    (IF admin # 0 THEN <<"admin:exc_text">> ELSE <<>>)
    \o (IF channel # "" THEN <<"user:generic_error">> ELSE <<>>)

Raised(r, chat, admin, channel) ==
    [r EXCEPT !.tr = r.tr \o <<"raise">> \o error_handler(chat, admin, channel)]

-----------------------------------------------------------------------------
(* The manual wizard's commands.                                           *)

start(ud, st) ==
    Res(SetKey(EmptyDict, "step", "title"), st, <<"session:clear", "user:new_article">>)

status(ud, st) ==
    [Res(ud, st, <<"user:status">>) EXCEPT !.shown = GetD(ud, "step", "title")]

cancel(ud, st) ==
    Res(EmptyDict, st, <<"session:clear", "user:cancelled">>)

StepIndex(step) == CHOOSE i \in 1..Len(STEPS) : STEPS[i] = step

BackIndexMutant(i) == IF i - 2 > 1 THEN i - 2 ELSE 1
BackIndex(i) == IF i - 1 > 1 THEN i - 1 ELSE 1

back(ud, st, chat, admin, channel) ==
    LET step == GetD(ud, "step", "title") IN
    IF ~InList(step, STEPS)
    THEN Raised(Res(ud, st, <<>>), chat, admin, channel)
    ELSE LET new == STEPS[BackIndex(StepIndex(step))] IN
         [Res(SetKey(ud, "step", new), st, <<"user:back">>) EXCEPT !.shown = new]

skip_imageMutant(ud, st, meta) ==
    IF ~Is(ud, "step", "image")
    THEN Res(ud, st, <<"user:wrong_step">>)
    ELSE LET ud2 == SetKey(ud, "step", "category") IN
         IF meta = "raise"
         THEN Res(ud2, st, <<"api:meta:raise", "user:exc_text">>)
         ELSE Res(ud2, st, <<"api:meta:ok", "api:meta:ok", "user:choose_category">>)
skip_image(ud, st, meta) ==
    IF ~Is(ud, "step", "image")
    THEN Res(ud, st, <<"user:wrong_step">>)
    ELSE LET ud2 == SetKey(SetKey(ud, "photo_file_id", None), "step", "category") IN
         IF meta = "raise"
         THEN Res(ud2, st, <<"api:meta:raise", "user:exc_text">>)
         ELSE Res(ud2, st, <<"api:meta:ok", "user:choose_category">>)

-----------------------------------------------------------------------------
(* The publish pipeline of the manual wizard.                              *)

Truthy(d, k) == k \in DOMAIN d /\ d[k] # None /\ d[k] # ""

\* file.download_as_bytearray(): the bytes behind a file id
Download(file_id) == <<"bytes", file_id>>

CreatePayloadMutant(data) ==
    [title |-> GetD(data, "title", EmptyStr),
     body |-> Strip(GetD(data, "body", EmptyStr)),
     description |-> GetD(data, "description", EmptyStr),
     category_slug |-> GetD(data, "category_slug", ""),
     tag_slugs |-> JoinComma(GetD(data, "all_tags", <<>>)),
     image |-> IF Truthy(data, "photo_file_id")
               THEN Download(data["photo_file_id"]) ELSE <<>>]
\* The payload and files of the create-post call.  body_html, the body
\* rendered by the markdown library, is left out.
CreatePayload(data) ==
    [title |-> GetD(data, "title", EmptyStr),
     body |-> Strip(GetD(data, "body", EmptyStr)),
     description |-> GetD(data, "description", EmptyStr),
     category_slug |-> GetD(data, "category_slug", ""),
     tag_slugs |-> JoinComma(GetD(data, "selected_tags", <<>>)),
     image |-> IF Truthy(data, "photo_file_id")
               THEN Download(data["photo_file_id"]) ELSE <<>>]

\* The longest backend response text passed on to the administrator.
ErrTextLimit == 1000

TruncateMutant(text, n) == text
\* text[:n] + "..." when text is longer than n
Truncate(text, n) ==
    IF Len(text) > n THEN SubSeq(text, 1, n) \o <<".", ".", ".">> ELSE text

PersistFailedMutant(ud, st, admin, how, detail) ==
    [Res(EmptyDict, st,
         <<how>> \o (IF admin # 0 THEN <<"admin:exc_text">> ELSE <<>>)
             \o <<"session:clear", "user:generic_error">>)
        EXCEPT !.admin_text = IF admin # 0 THEN detail ELSE <<>>]
\* The two failure exits of create_post: the call raised ("api:post:raise")
\* or the response was not ok ("api:post:notok").
\* detail: the exception's text, or the response text cut to the limit.
PersistFailed(ud, st, admin, how, detail) ==
    [Res(ud, st,
         <<how>> \o (IF admin # 0 THEN <<"admin:exc_text">> ELSE <<>>)
             \o <<"user:generic_error">>)
        EXCEPT !.admin_text = IF admin # 0 THEN detail ELSE <<>>]

PersistedMutant(ud, st, chat, admin, channel, chan) ==
    IF channel # "" /\ chan = "raise"
    THEN Raised(Res(EmptyDict, st, <<"api:post:ok", "session:clear", "channel:raise">>),
                chat, admin, channel)
    ELSE Res(EmptyDict, st,
             <<"api:post:ok", "session:clear">>
                 \o (IF channel # "" THEN <<"channel:post">> ELSE <<>>)
                 \o <<"user:published">>)
\* create_post after an ok response: broadcast, clear, confirm.
Persisted(ud, st, chat, admin, channel, chan) ==
    IF channel # "" /\ chan = "raise"
    THEN Raised(Res(ud, st, <<"api:post:ok", "channel:raise">>), chat, admin, channel)
    ELSE Res(EmptyDict, st,
             <<"api:post:ok">>
                 \o (IF channel # "" THEN <<"channel:post">> ELSE <<>>)
                 \o <<"session:clear", "user:published">>)

\* getfile: the file download; post: the create-post call ("raise", "notok",
\* "badjson", "ok"); resptext: the text of its response, or of the exception
\* it raised; chan: the send to the channel.
create_post(ud, st, chat, admin, channel, getfile, post, resptext, chan) ==
    IF Truthy(ud, "photo_file_id") /\ getfile = "raise"
    THEN Raised(Res(ud, st, <<"transport:get_file:raise">>), chat, admin, channel)
    ELSE LET payload == CreatePayload(ud)
             r == CASE post = "raise" ->
                         PersistFailed(ud, st, admin, "api:post:raise", resptext)
                    [] post = "notok" ->
                         PersistFailed(ud, st, admin, "api:post:notok",
                                       Truncate(resptext, ErrTextLimit))
                    [] post = "badjson" ->
                         Raised(Res(ud, st, <<"api:post:badjson">>), chat, admin, channel)
                    [] OTHER -> Persisted(ud, st, chat, admin, channel, chan)
         IN [r EXCEPT !.post = <<payload>>]

\* show_recent_posts; recent: the outcome of GET recent posts.
show_recent_posts(ud, st, recent) ==
    CASE recent = "raise" -> Res(ud, st, <<"api:recent:raise", "user:exc_text">>)
      [] recent = "empty" -> Res(ud, st, <<"api:recent:ok", "user:no_posts">>)
      [] OTHER -> Res(SetKey(ud, "recent_posts", <<"p1">>), st,
                      <<"api:recent:ok", "user:choose_post">>)

-----------------------------------------------------------------------------
(* The last step of the AI-draft flow.                                     *)

\* meta: "raise", "ok", or "gone" (the catalog no longer has the category);
\* approve: the approve call ("fail", "ok"); chan: the send to the channel.
finalize_ai_draft_post(ud, st, chat, admin, channel, meta, approve, chan) ==
    IF ~("ai_draft_id" \in DOMAIN ud /\ ud["ai_draft_id"] # 0)
       \/ ~Truthy(ud, "ai_draft_category_slug")
    THEN Res(ud, st, <<"user:incomplete">>)
    ELSE IF meta = "raise"
    THEN Raised(Res(ud, st, <<"api:meta:raise">>), chat, admin, channel)
    ELSE IF meta = "gone"
    THEN Res(ud, st, <<"api:meta:ok", "user:category_missing">>)
    ELSE IF approve = "fail"
    THEN Res(ud, st, <<"api:meta:ok", "user:creating", "api:approve:fail", "user:exc_text">>)
    ELSE IF channel # "" /\ chan = "raise"
    THEN Res(ud, st, <<"api:meta:ok", "user:creating", "api:approve:ok",
                       "channel:raise", "user:exc_text">>)
    ELSE Res(Pop(Pop(Pop(Pop(Pop(Pop(ud, "ai_draft_id"), "ai_draft_step"),
                 "ai_draft_category_slug"), "selected_tags"),
                 "ai_draft_photo_file_id"), "all_tags"),
             st,
             <<"api:meta:ok", "user:creating", "api:approve:ok">>
                 \o (IF channel # "" THEN <<"channel:post">> ELSE <<>>)
                 \o <<"session:pop_ai_draft", "user:published">>)


-----------------------------------------------------------------------------
(* handle_text: the free-text prompts, the keyboard labels, the wizard.    *)

TextRouteMutant(ud, text) ==
    CASE text = LBL_NEW -> "new"
      [] text = LBL_RECENT -> "recent"
      [] text = LBL_STATUS -> "status"
      [] text = LBL_BACK -> "back"
      [] text = LBL_SKIP -> "skip"
      [] text = LBL_CANCEL -> "cancel"
      [] text = LBL_FINISH -> "finish"
      [] Is(ud, "ai_mode", "await_topic") -> "ai_topic"
      [] Is(ud, "ai_draft_mode", "await_topic") -> "ai_draft_topic"
      [] Is(ud, "ai_settings_mode", "edit_instructions") -> "edit_instructions"
      [] Is(ud, "ai_settings_mode", "add_trend") -> "add_trend"
      [] Is(ud, "ai_settings_mode", "add_topic") -> "add_topic"
      [] Is(ud, "ai_trend_mode", "add") -> "trend_add"
      [] OTHER -> "step"
\* The branch of handle_text that takes the (stripped) text: the first
\* condition that matches, in the order the function tests them.
TextRoute(ud, text) ==
    IF Is(ud, "ai_mode", "await_topic") THEN "ai_topic"
    ELSE IF Is(ud, "ai_draft_mode", "await_topic") THEN "ai_draft_topic"
    ELSE IF Is(ud, "ai_settings_mode", "edit_instructions") THEN "edit_instructions"
    ELSE IF Is(ud, "ai_settings_mode", "add_trend") THEN "add_trend"
    ELSE IF Is(ud, "ai_settings_mode", "add_topic") THEN "add_topic"
    ELSE IF Is(ud, "ai_trend_mode", "add") THEN "trend_add"
    ELSE IF text = LBL_NEW THEN "new"
    ELSE IF text = LBL_RECENT THEN "recent"
    ELSE IF text = LBL_STATUS THEN "status"
    ELSE IF text = LBL_BACK THEN "back"
    ELSE IF text = LBL_SKIP THEN "skip"
    ELSE IF text = LBL_CANCEL THEN "cancel"
    ELSE IF text = LBL_FINISH THEN "finish"
    ELSE "step"

\* The AI-idea prompt; idea: the outcome of the post-idea call.
AiTopicReply(ud, st, admin, text, idea) ==
    LET ud2 == SetKey(ud, "ai_mode", None) IN
    IF idea = "ok"
    THEN Res(ud2, st, <<"user:generating", "api:idea:ok", "user:idea">>)
    ELSE Res(ud2, st,
             <<"user:generating", "api:idea:fail">>
                 \o (IF admin # 0 THEN <<"admin:exc_text">> ELSE <<>>)
                 \o <<"user:generic_error">>)

\* get_ai_settings(): instructions with the trends appended
InstructionsWithTrends(st) ==
    IF st.trends # <<>> THEN st.instructions \o <<"trends">> \o st.trends
    ELSE st.instructions

\* The manual AI-draft prompt; draft: the outcome of the draft-create call.
AiDraftTopicReply(ud, st, admin, text, draft) ==
    LET ud2 == SetKey(SetKey(ud, "ai_draft_mode", None), "ai_draft_manual", None) IN
    IF draft = "ok"
    THEN Res(ud2, st, <<"user:generating", "api:draft_create:ok", "user:draft_proposal">>)
    ELSE Res(ud2, st,
             <<"user:generating", "api:draft_create:fail", "user:exc_text">>
                 \o (IF admin # 0 THEN <<"admin:exc_text">> ELSE <<>>))

\* save_ai_settings(new) after a prompt reply; saved: whether the write worked
SaveReply(ud, st, new, saved) ==
    IF saved THEN Res(ud, new, <<"settings:save", "user:saved">>)
    ELSE Res(ud, st, <<"settings:save_failed", "user:not_saved">>)

SettingsReply(ud, st, route, text, saved) ==
    CASE route = "edit_instructions" ->
           SaveReply(SetKey(ud, "ai_settings_mode", None), st,
                     [st EXCEPT !.instructions = text], saved)
      [] route = "add_trend" ->
           SaveReply(SetKey(ud, "ai_settings_mode", None), st,
                     [st EXCEPT !.trends = Append(@, text)], saved)
      [] route = "add_topic" ->
           SaveReply(SetKey(ud, "ai_settings_mode", None), st,
                     [st EXCEPT !.topics = Append(@, text)], saved)
      [] OTHER ->
           SaveReply(SetKey(ud, "ai_trend_mode", None), st,
                     [st EXCEPT !.trends = Append(@, text)], saved)

finish_textMutant(ud, st) ==
    IF ~("body" \in DOMAIN ud /\ ud["body"] # <<>>)
    THEN Res(ud, st, <<"user:no_body_yet">>)
    ELSE Res(SetKey(ud, "step", "description"), st, <<"user:body_done">>)
\* The finish-text label.
finish_text(ud, st) ==
    IF ~("body" \in DOMAIN ud /\ ud["body"] # <<>>)
    THEN Res(ud, st, <<"user:no_body_yet">>)
    ELSE Res(SetKey(ud, "step", "desc"), st, <<"user:body_done">>)

AppendBodyMutant(current, text) == text
\* The body after one more text: appended behind a blank line.
AppendBody(current, text) ==
    IF current # <<>> THEN current \o <<"\n", "\n">> \o text ELSE text

WizardStepMutant(ud, st, text) ==
    LET step == GetD(ud, "step", "title") IN
    CASE step = "title" ->
           Res(SetKey(SetKey(ud, "title", text), "step", "body"), st, <<"user:title_ok">>)
      [] step = "body" ->
           Res(SetKey(ud, "body", AppendBody(GetD(ud, "body", EmptyStr), text)), st,
               <<"user:body_ok">>)
      [] step = "desc" ->
           Res(SetKey(SetKey(ud, "title", text), "step", "image"), st,
               <<"user:desc_ok">>)
      [] OTHER -> Res(ud, st, <<>>)
\* The wizard's step handler, the last branch of handle_text.
WizardStep(ud, st, text) ==
    LET step == GetD(ud, "step", "title") IN
    CASE step = "title" ->
           Res(SetKey(SetKey(ud, "title", text), "step", "body"), st, <<"user:title_ok">>)
      [] step = "body" ->
           Res(SetKey(ud, "body", AppendBody(GetD(ud, "body", EmptyStr), text)), st,
               <<"user:body_ok">>)
      [] step = "desc" ->
           Res(SetKey(SetKey(ud, "description", text), "step", "image"), st,
               <<"user:desc_ok">>)
      [] OTHER -> Res(ud, st, <<>>)

\* env: the outcomes of the external calls the handler may make.
handle_text(ud, st, chat, admin, channel, raw, env) ==
    LET text == Strip(raw)
        route == TextRoute(ud, text)
    IN CASE route = "ai_topic" -> AiTopicReply(ud, st, admin, text, env.idea)
         [] route = "ai_draft_topic" -> AiDraftTopicReply(ud, st, admin, text, env.draft)
         [] route \in {"edit_instructions", "add_trend", "add_topic", "trend_add"} ->
              SettingsReply(ud, st, route, text, env.saved)
         [] route = "new" -> start(ud, st)
         [] route = "recent" -> show_recent_posts(ud, st, env.recent)
         [] route = "status" -> status(ud, st)
         [] route = "back" -> back(ud, st, chat, admin, channel)
         [] route = "skip" ->
              IF Is(ud, "ai_draft_step", "image")
              THEN finalize_ai_draft_post(SetKey(ud, "ai_draft_photo_file_id", None), st,
                                          chat, admin, channel, env.meta, env.approve,
                                          env.chan)
              ELSE skip_image(ud, st, env.meta)
         [] route = "cancel" -> cancel(ud, st)
         [] route = "finish" -> finish_text(ud, st)
         [] OTHER -> WizardStep(ud, st, text)

\* photo: the file id of the largest size of the photo message.
handle_photo(ud, st, chat, admin, channel, photo, env) ==
    IF Is(ud, "ai_draft_step", "image")
    THEN finalize_ai_draft_post(SetKey(ud, "ai_draft_photo_file_id", photo), st,
                                chat, admin, channel, env.meta, env.approve, env.chan)
    ELSE IF ~Is(ud, "step", "image")
    THEN Res(ud, st, <<"user:wrong_step">>)
    ELSE LET ud2 == SetKey(SetKey(ud, "photo_file_id", photo), "step", "category") IN
         IF env.meta = "raise"
         THEN Res(ud2, st, <<"api:meta:raise", "user:exc_text">>)
         ELSE Res(ud2, st, <<"api:meta:ok", "user:choose_category">>)


-----------------------------------------------------------------------------
(* handle_callback: a callback's data is the list of its ":"-separated     *)
(* parts, <<"cat", slug>>, <<"tag", slug>>, <<"aidraft", action, id>>, ... *)

\* int(s) for the ids the model uses
ToInt(s) == CASE s = "0" -> 0 [] s = "1" -> 1 [] OTHER -> 2

\* send_post_to_channel; post: the post whose title, excerpt and url make
\* the caption; chan: the outcome of the send to the channel
send_post_to_channel(ud, st, admin, channel, post, chan) ==
    IF channel = ""
    THEN Res(ud, st, (IF admin # 0 THEN <<"admin:no_channel">> ELSE <<>>)
                         \o <<"user:generic_error">>)
    ELSE IF chan = "raise"
    THEN Res(ud, st, <<"user:sending", "channel:raise">>
                         \o (IF admin # 0 THEN <<"admin:exc_text">> ELSE <<>>)
                         \o <<"user:generic_error">>)
    ELSE [Res(ud, st, <<"user:sending", "channel:post", "user:sent">>)
             EXCEPT !.caption = <<post>>]

\* The "postid:" branch.
PostIdCallback(ud, st, admin, channel, post_id, chan) ==
    IF ~InList(post_id, GetD(ud, "recent_posts", <<>>))
    THEN Res(ud, st, <<"user:post_not_found">>)
    ELSE send_post_to_channel(ud, st, admin, channel, post_id, chan)

ApproveWritesMutant(ud, draft_id) == SetKey(ud, "ai_draft_step", "category")
\* What an approved draft leaves in the session.
ApproveWrites(ud, draft_id) ==
    SetKey(SetKey(ud, "ai_draft_id", draft_id), "ai_draft_step", "category")

ApproveFailedMutant(ud, st, tr) == Res(SetKey(ud, "ai_draft_step", "category"), st, tr)
\* The except branch of an approve: the error text to the user, no write.
ApproveFailed(ud, st, tr) == Res(ud, st, tr)

\* env.draftget, env.meta, env.send: the draft fetch, the catalog fetch and
\* the send of the category keyboard; env.draft: the reject/regenerate call.
handle_ai_draft_decision(ud, st, action, draft_id, env) ==
    CASE action = "approve" ->
           IF env.draftget # "ok"
           THEN ApproveFailed(ud, st, <<"api:draft_get:fail", "user:exc_text">>)
           ELSE IF env.meta = "raise"
           THEN ApproveFailed(ud, st, <<"api:draft_get:ok", "api:meta:raise",
                                        "user:exc_text">>)
           ELSE IF env.send = "raise"
           THEN ApproveFailed(ud, st, <<"api:draft_get:ok", "api:meta:ok",
                                        "user:send_failed", "user:exc_text">>)
           ELSE Res(ApproveWrites(ud, draft_id),
                    st, <<"api:draft_get:ok", "api:meta:ok", "user:choose_category">>)
      [] action = "reject" ->
           IF env.draft = "ok"
           THEN Res(ud, st, <<"api:draft_reject:ok", "user:draft_rejected">>)
           ELSE Res(ud, st, <<"api:draft_reject:fail", "user:exc_text">>)
      [] action = "regenerate" ->
           IF env.draft = "ok"
           THEN Res(ud, st, <<"user:regenerating", "api:draft_regenerate:ok",
                              "user:draft_proposal">>)
           ELSE Res(ud, st, <<"user:regenerating", "api:draft_regenerate:fail",
                              "user:exc_text">>)
      [] OTHER -> Res(ud, st, <<>>)

handle_ai_settings_callback(ud, st, action) ==
    CASE action \in {"edit_instructions", "add_trend", "add_topic"} ->
           Res(SetKey(ud, "ai_settings_mode", action), st, <<"user:send_text">>)
      [] action \in {"list_trends", "list_topics"} -> Res(ud, st, <<"user:list">>)
      [] OTHER -> Res(ud, st, <<>>)

\* trends.pop(idx), idx counted from 0
PopAt(l, idx) == SubSeq(l, 1, idx) \o SubSeq(l, idx + 2, Len(l))

handle_ai_trends_callback(ud, st, action, saved) ==
    CASE action = <<"add">> ->
           Res(SetKey(ud, "ai_trend_mode", "add"), st, <<"user:send_text">>)
      [] action = <<"delete">> ->
           IF st.trends = <<>> THEN Res(ud, st, <<"user:no_trends">>)
           ELSE Res(ud, st, <<"user:choose_trend">>)
      [] Len(action) = 2 /\ action[1] = "del" ->
           LET idx == ToInt(action[2]) IN
           IF 0 <= idx /\ idx < Len(st.trends)
           THEN SaveReply(ud, st, [st EXCEPT !.trends = PopAt(@, idx)], saved)
           ELSE Res(ud, st, <<"user:bad_index">>)
      [] OTHER -> Res(ud, st, <<>>)

\* The "cat:" branch: the AI-draft flow when its step flag says category,
\* the manual wizard otherwise.
CategoryCallback(ud, st, slug, meta) ==
    LET ud2 == IF Is(ud, "ai_draft_step", "category")
               THEN SetKey(SetKey(ud, "ai_draft_category_slug", slug),
                           "ai_draft_step", "tags")
               ELSE SetKey(SetKey(ud, "category_slug", slug), "step", "tags")
    IN IF meta = "raise"
       THEN Res(ud2, st, <<"api:meta:raise", "user:exc_text">>)
       ELSE Res(SetKey(SetKey(ud2, "all_tags", MetaTags), "selected_tags", <<>>), st,
                <<"api:meta:ok", "user:choose_tags">>)

ToggleTagMutant(selected, value) == Append(selected, value)
\* The toggle of one tag id in the selected list.
ToggleTag(selected, value) ==
    IF InList(value, selected) THEN ListRemove(selected, value)
    ELSE Append(selected, value)

\* The "tag:" branch.
TagCallback(ud, st, chat, admin, channel, value, env) ==
    LET selected == GetD(ud, "selected_tags", <<>>) IN
    IF value = "done"
    THEN IF Is(ud, "ai_draft_step", "tags")
         THEN Res(SetKey(ud, "ai_draft_step", "image"), st, <<"user:send_photo">>)
         ELSE LET r == create_post(ud, st, chat, admin, channel, env.getfile, env.post,
                                   env.resptext, env.chan)
              IN [r EXCEPT !.tr = <<"user:posting">> \o @]
    ELSE Res(SetKey(ud, "selected_tags", ToggleTag(selected, value)), st,
             <<"user:choose_tags">>)

\* What fetch_daily_pick gives: it raised, or the payload's ok, pick_id
\* and post (None: no post, or an empty one).
DailyNext(how, pick_id, post) == [status |-> how, pick_id |-> pick_id, post |-> post]
DailyNextOutcomes ==
    {DailyNext("raise", 0, None), DailyNext("not_ok", 1, "post1"),
     DailyNext("ok", 1, "post1"), DailyNext("ok", 2, "post2"), DailyNext("ok", 1, None)}

DailyPostMutant(payload, pick_id) ==
    IF payload.status = "ok" THEN payload.post ELSE None
\* The post a sent decision on pick_id takes from the payload.
DailyPost(payload, pick_id) ==
    IF payload.status = "ok" /\ payload.pick_id = pick_id THEN payload.post ELSE None

DecisionValidMutant(action) == TRUE
\* `action not in ("sent", "rejected")`
DecisionValid(action) == action \in {"sent", "rejected"}

\* handle_daily_decision; env.dailyget: the fetch of the queued pick,
\* env.mark: the mark call, env.chan: the send to the channel.
handle_daily_decision(ud, st, admin, channel, action, pick_id, env) ==
    LET toAdmin(t) == IF admin # 0 THEN <<t>> ELSE <<>>
        fetched == IF action # "sent" THEN <<>>
                   ELSE IF env.dailyget.status = "raise"
                   THEN <<"api:daily_next:raise">> \o toAdmin("admin:exc_text")
                   ELSE <<"api:daily_next:ok">>
        post == IF action = "sent" THEN DailyPost(env.dailyget, pick_id) ELSE None
    IN
    IF ~DecisionValid(action)
    THEN Res(ud, st, <<"user:wrong_decision">>)
    ELSE IF env.mark = "raise"
    THEN Res(ud, st, fetched \o <<"api:daily_mark:raise">> \o toAdmin("admin:exc_text")
                         \o <<"user:generic_error">>)
    ELSE IF action # "sent"
    THEN Res(ud, st, fetched \o <<"api:daily_mark:ok", "user:pick_rejected">>)
    ELSE IF post = None
    THEN Res(ud, st, fetched \o <<"api:daily_mark:ok">> \o toAdmin("admin:no_post")
                         \o <<"user:generic_error">>)
    ELSE LET r == send_post_to_channel(ud, st, admin, channel, post, env.chan)
         IN [r EXCEPT !.tr = fetched \o <<"api:daily_mark:ok", "user:sending">> \o @]

\* The "daily:" branch: int(pick_id) raises on the id of a proposal that
\* had no pick_id ("None").
DailyCallback(ud, st, chat, admin, channel, action, pick_id, env) ==
    IF pick_id = "None"
    THEN Raised(Res(ud, st, <<>>), chat, admin, channel)
    ELSE handle_daily_decision(ud, st, admin, channel, action, ToInt(pick_id), env)

handle_callback(ud, st, chat, admin, channel, data, env) ==
    CASE data[1] = "postid" ->
           PostIdCallback(ud, st, admin, channel, data[2], env.chan)
      [] data[1] = "daily" ->
           DailyCallback(ud, st, chat, admin, channel, data[2], data[3], env)
      [] data[1] = "aidraft" ->
           handle_ai_draft_decision(ud, st, data[2], ToInt(data[3]), env)
      [] data[1] = "aisettings" -> handle_ai_settings_callback(ud, st, data[2])
      [] data[1] = "aitrend" ->
           handle_ai_trends_callback(ud, st, Tail(data), env.saved)
      [] data[1] = "cat" -> CategoryCallback(ud, st, data[2], env.meta)
      [] data[1] = "tag" -> TagCallback(ud, st, chat, admin, channel, data[2], env)
      [] OTHER -> Res(ud, st, <<>>)

-----------------------------------------------------------------------------
(* The AI commands.                                                        *)

ai_post_command(ud, st) ==
    Res(SetKey(ud, "ai_mode", "await_topic"), st, <<"user:send_topic">>)

\* `not ADMIN_CHAT_ID or str(update.effective_chat.id) != str(ADMIN_CHAT_ID)`
NotAdminChatMutant(chat, admin) == admin = 0
NotAdminChat(chat, admin) == admin = 0 \/ chat # admin

ai_draft_command(ud, st, chat, admin) ==
    IF NotAdminChat(chat, admin)
    THEN Res(ud, st, <<"user:admin_only">>)
    ELSE Res(SetKey(SetKey(ud, "ai_draft_manual", PyTrue), "ai_draft_mode", "await_topic"),
             st, <<"user:send_topic">>)

ai_settings_command(ud, st, chat, admin) ==
    IF NotAdminChat(chat, admin)
    THEN Res(ud, st, <<"user:admin_only">>)
    ELSE Res(ud, st, <<"user:settings">>)

ai_trends_command(ud, st, chat, admin) ==
    IF NotAdminChat(chat, admin)
    THEN Res(ud, st, <<"user:admin_only">>)
    ELSE IF st.trends = <<>>
    THEN Res(SetKey(ud, "ai_trend_mode", "add"), st, <<"user:send_text">>)
    ELSE Res(ud, st, <<"user:trends">>)


-----------------------------------------------------------------------------
(* The scheduled callbacks.  A job has no update and no chat: it is given  *)
(* every session (uds) and leaves them with the settings file, its ordered *)
(* effects, the request it sent and the buttons it offered.                *)

JobRes(uds, st, tr) ==
    [user_data |-> uds, st |-> st, tr |-> tr, sent |-> <<>>, buttons |-> {}]

\* An exception that leaves a job callback is handed to error_handler with
\* no update: only the administrator is told.
JobRaised(r, admin) ==
    [r EXCEPT !.tr = r.tr \o <<"raise">>
                         \o (IF admin # 0 THEN <<"admin:exc_text">> ELSE <<>>)]

\* `if not ADMIN_CHAT_ID: return`
AdminUnsetMutant(admin) == FALSE
AdminUnset(admin) == admin = 0

\* The sessions as a job callback leaves them: it never uses user_data.
JobSessionsMutant(uds, admin) ==
    IF admin \in DOMAIN uds
    THEN [uds EXCEPT ![admin] = SetKey(@, "ai_draft_id", 1)]
    ELSE uds
JobSessions(uds, admin) == uds

\* pick: what fetch_daily_pick gives: "raise" (no connection, error status
\* or a body that is not JSON), "not_ok" (ok is false), "ok", "no_fields"
\* (ok with neither pick_id nor post), "null_post" (ok with post: null).
DailyPickOutcomes == {"raise", "not_ok", "ok", "no_fields", "null_post"}

send_daily_pick_to_admin(uds, st, admin, pick) ==
    IF AdminUnset(admin) THEN JobRes(uds, st, <<>>)
    ELSE LET res(tr) == JobRes(JobSessions(uds, admin), st, tr) IN
         CASE pick = "raise" -> res(<<"api:daily_next:raise", "admin:exc_text">>)
           [] pick = "not_ok" -> res(<<"api:daily_next:ok", "admin:exc_text">>)
           [] pick = "null_post" -> JobRaised(res(<<"api:daily_next:ok">>), admin)
           [] OTHER ->
                LET pick_id == IF pick = "ok" THEN "1" ELSE None IN
                [res(<<"api:daily_next:ok", "admin:daily_proposal">>)
                    EXCEPT !.buttons = {<<"daily", "sent", pick_id>>,
                                        <<"daily", "rejected", pick_id>>}]

\* draft: the outcome of the draft-create call: "network" (a
\* RequestException), "not_ok" (error status), "bad_json", "ok_false",
\* "missing" (ok without draft_id or title), "ok".
DraftOutcomes == {"network", "not_ok", "bad_json", "ok_false", "missing", "ok"}

\* i: the index random.choice picks in the topic list
generate_ai_draft(uds, st, admin, i, draft) ==
    IF AdminUnset(admin) THEN JobRes(uds, st, <<>>)
    ELSE LET res(tr) == JobRes(JobSessions(uds, admin), st, tr) IN
         IF st.topics = <<>>
         THEN JobRaised(res(<<>>), admin)
         ELSE LET req == <<[topic |-> st.topics[i],
                            instructions |-> InstructionsWithTrends(st)]>>
                  out(tr) == [res(tr) EXCEPT !.sent = req]
              IN
              CASE draft = "network" ->
                     out(<<"api:draft_create:raise", "admin:network_error">>)
                [] draft = "ok" ->
                     [out(<<"api:draft_create:ok", "admin:draft_proposal">>)
                         EXCEPT !.buttons = {<<"aidraft", "approve", "1">>,
                                             <<"aidraft", "reject", "1">>,
                                             <<"aidraft", "regenerate", "1">>}]
                [] OTHER -> out(<<"api:draft_create:fail", "admin:exc_text">>)

-----------------------------------------------------------------------------
(* The inputs of the model: chats, message texts, photos, callback data    *)
(* and the outcomes of the external calls.                                 *)

Chats == {1, 2}

FreeTexts == {<<"a">>, <<" ", "b", " ">>}
WizardTexts == {<<"a">>} \cup Labels

Photos == {"f1"}

WizardCallbacks ==
    {<<"cat", "c1">>, <<"tag", "t1">>, <<"tag", "t2">>, <<"tag", "done">>}
EnvOK ==
    [idea |-> "ok", draft |-> "ok", saved |-> TRUE, recent |-> "ok", meta |-> "ok",
     approve |-> "ok", chan |-> "ok", getfile |-> "ok", post |-> "ok",
     draftget |-> "ok", send |-> "ok", resptext |-> <<"e">>,
     dailyget |-> [status |-> "ok", pick_id |-> 1, post |-> "post1"], mark |-> "ok"]

FinalizeEnvs ==
    {[EnvOK EXCEPT !.meta = m, !.approve = a, !.chan = c] :
        m \in {"ok", "raise", "gone"}, a \in {"ok", "fail"}, c \in {"ok", "raise"}}

MetaEnvs == {[EnvOK EXCEPT !.meta = m] : m \in {"ok", "raise"}}

SavedEnvs == {[EnvOK EXCEPT !.saved = x] : x \in BOOLEAN}

PostEnvs ==
    {[EnvOK EXCEPT !.getfile = g, !.post = p, !.chan = c] :
        g \in {"ok", "raise"}, p \in {"ok", "raise", "notok", "badjson"},
        c \in {"ok", "raise"}}

\* The outcomes that matter to finalize_ai_draft_post and create_post on
\* this session: those of the calls they reach.
FinalizeEnvsOf(ud) ==
    IF ~("ai_draft_id" \in DOMAIN ud /\ ud["ai_draft_id"] # 0)
       \/ ~Truthy(ud, "ai_draft_category_slug")
    THEN {EnvOK}
    ELSE {e \in FinalizeEnvs :
            /\ e.meta # "ok" => e.approve = "ok" /\ e.chan = "ok"
            /\ e.approve # "ok" => e.chan = "ok"}

PostEnvsOf(ud) ==
    {e \in PostEnvs :
        /\ ~Truthy(ud, "photo_file_id") => e.getfile = "ok"
        /\ e.getfile # "ok" => e.post = "ok" /\ e.chan = "ok"
        /\ e.post # "ok" => e.chan = "ok"}

\* The outcomes that matter to each handler on this session and event.
TextEnvs(ud, raw) ==
    LET route == TextRoute(ud, Strip(raw)) IN
    CASE route = "ai_topic" -> {[EnvOK EXCEPT !.idea = x] : x \in {"ok", "fail"}}
      [] route = "ai_draft_topic" -> {[EnvOK EXCEPT !.draft = x] : x \in {"ok", "fail"}}
      [] route \in {"edit_instructions", "add_trend", "add_topic", "trend_add"} -> SavedEnvs
      [] route = "recent" -> {[EnvOK EXCEPT !.recent = x] : x \in {"ok", "empty", "raise"}}
      [] route = "skip" ->
           IF Is(ud, "ai_draft_step", "image") THEN FinalizeEnvsOf(ud)
           ELSE IF Is(ud, "step", "image") THEN MetaEnvs ELSE {EnvOK}
      [] OTHER -> {EnvOK}

PhotoEnvs(ud) ==
    IF Is(ud, "ai_draft_step", "image") THEN FinalizeEnvsOf(ud)
    ELSE IF Is(ud, "step", "image") THEN MetaEnvs ELSE {EnvOK}

CallbackEnvs(ud, data) ==
    CASE data[1] = "postid" -> {[EnvOK EXCEPT !.chan = c] : c \in {"ok", "raise"}}
      [] data[1] = "daily" ->
           {e \in {[EnvOK EXCEPT !.dailyget = g, !.mark = m, !.chan = c] :
                     g \in DailyNextOutcomes, m \in {"ok", "raise"},
                     c \in {"ok", "raise"}} :
               /\ data[2] # "sent" => e.dailyget = EnvOK.dailyget
               /\ (data[2] # "sent" \/ e.mark # "ok") => e.chan = "ok"}
      [] data[1] = "aidraft" /\ data[2] = "approve" ->
           {e \in {[EnvOK EXCEPT !.draftget = g, !.meta = m, !.send = x] :
                     g \in {"ok", "fail"}, m \in {"ok", "raise"}, x \in {"ok", "raise"}} :
               /\ e.draftget # "ok" => e.meta = "ok" /\ e.send = "ok"
               /\ e.meta # "ok" => e.send = "ok"}
      [] data[1] = "aidraft" -> {[EnvOK EXCEPT !.draft = x] : x \in {"ok", "fail"}}
      [] data[1] = "aitrend" -> SavedEnvs
      [] data[1] = "cat" -> MetaEnvs
      [] data[1] = "tag" /\ data[2] = "done" /\ ~Is(ud, "ai_draft_step", "tags") ->
           PostEnvsOf(ud)
      [] OTHER -> {EnvOK}

\* The body and the settings lists stay within the model's bounds.
BodyFits(ud, raw) ==
    TextRoute(ud, Strip(raw)) = "step" /\ Is(ud, "step", "body")
        => Len(GetD(ud, "body", <<>>)) + 2 + Len(Strip(raw)) <= MaxBodyLen
              \/ GetD(ud, "body", <<>>) = <<>>

SettingsFit(st) == Len(st.trends) <= MaxTrends /\ Len(st.topics) <= 1 + MaxTrends

-----------------------------------------------------------------------------
(* The state machine: one action per registered handler.                   *)

\* No handler is suspended.  A suspended create_post is at "download" (the
\* photo's bytes) or at "broadcast" (the send to the channel); seen is the
\* session it found when it started, payload the request it has posted.
Idle == [at |-> "idle", chat |-> 0, seen |-> EmptyDict, payload |-> CreatePayload(EmptyDict)]

Init ==
    /\ user_data = [c \in Chats |-> EmptyDict]
    /\ settings = DefaultSettings
    /\ CHANNEL_ID \in {"", "@channel"}
    /\ ADMIN_CHAT_ID \in {0, 1}
    /\ update_queue = <<>>
    /\ inflight = Idle

\* A handler of user c ran on its event and left r: the session of c and
\* the settings file.
Left(c, r) ==
    /\ SettingsFit(r.st)
    /\ user_data' = [user_data EXCEPT ![c] = r.ud]
    /\ settings' = r.st
    /\ UNCHANGED <<CHANNEL_ID, ADMIN_CHAT_ID>>

\* The application takes one update at a time and the handler runs to its
\* end: the update is handled as it arrives.
Ran(c, r) ==
    /\ Left(c, r)
    /\ UNCHANGED <<update_queue, inflight>>

CmdNew(c) == Ran(c, start(user_data[c], settings))

CmdStatus(c) == Ran(c, status(user_data[c], settings))

CmdCancel(c) == Ran(c, cancel(user_data[c], settings))

CmdBack(c) ==
    Ran(c, back(user_data[c], settings, c, ADMIN_CHAT_ID, CHANNEL_ID))

CmdSkip(c) ==
    \E meta \in {"ok", "raise"} :
        Ran(c, skip_image(user_data[c], settings, meta))

Text(c, texts) ==
    \E raw \in texts :
      \E env \in TextEnvs(user_data[c], raw) :
        /\ BodyFits(user_data[c], raw)
        /\ Ran(c, handle_text(user_data[c], settings, c, ADMIN_CHAT_ID, CHANNEL_ID, raw, env))

Photo(c) ==
    \E photo \in Photos, env \in PhotoEnvs(user_data[c]) :
        Ran(c, handle_photo(user_data[c], settings, c, ADMIN_CHAT_ID, CHANNEL_ID, photo, env))

Callback(c, datas) ==
    \E data \in datas :
      \E env \in CallbackEnvs(user_data[c], data) :
        Ran(c, handle_callback(user_data[c], settings, c, ADMIN_CHAT_ID, CHANNEL_ID, data, env))

CmdAiPost(c) == Ran(c, ai_post_command(user_data[c], settings))

CmdAiDraft(c) ==
    Ran(c, ai_draft_command(user_data[c], settings, c, ADMIN_CHAT_ID))

CmdAiSettings(c) ==
    Ran(c, ai_settings_command(user_data[c], settings, c, ADMIN_CHAT_ID))

CmdAiTrends(c) ==
    Ran(c, ai_trends_command(user_data[c], settings, c, ADMIN_CHAT_ID))

\* The manual wizard in one chat.
Next ==
    \/ CmdNew(1)
    \/ CmdStatus(1)
    \/ CmdCancel(1)
    \/ CmdBack(1)
    \/ CmdSkip(1)
    \/ Text(1, WizardTexts)
    \/ Photo(1)
    \/ Callback(1, WizardCallbacks)

Spec == Init /\ [][Next]_vars


\* The free-text prompts beside the start of the wizard, in one chat.
PromptTexts == {<<"a">>, LBL_CANCEL}
PromptCallbacks ==
    {<<"aisettings", "edit_instructions">>, <<"aisettings", "add_trend">>,
     <<"aisettings", "add_topic">>, <<"aitrend", "add">>, <<"aitrend", "del", "0">>}

NextRouter ==
    \/ CmdNew(1)
    \/ CmdCancel(1)
    \/ CmdAiPost(1)
    \/ CmdAiDraft(1)
    \/ CmdAiSettings(1)
    \/ CmdAiTrends(1)
    \/ Text(1, PromptTexts)
    \/ Callback(1, PromptCallbacks)

\* The router's cases do not turn on the channel: it is configured here.
InitRouter ==
    /\ user_data = [c \in Chats |-> EmptyDict]
    /\ settings = DefaultSettings
    /\ CHANNEL_ID = "@channel"
    /\ ADMIN_CHAT_ID \in {0, 1}
    /\ update_queue = <<>>
    /\ inflight = Idle

SpecRouter == InitRouter /\ [][NextRouter]_vars

\* The wizard and the AI-draft flow, which share the category, tags and
\* image steps, in one chat.
SharedTexts == {<<"a">>, LBL_FINISH, LBL_SKIP}
SharedCallbacks ==
    {<<"cat", "c1">>, <<"tag", "t1">>, <<"tag", "done">>, <<"aidraft", "approve", "1">>}

NextShared ==
    \/ CmdNew(1)
    \/ CmdCancel(1)
    \/ CmdSkip(1)
    \/ Text(1, SharedTexts)
    \/ Photo(1)
    \/ Callback(1, SharedCallbacks)

SpecShared == Init /\ [][NextShared]_vars

\* Two users, each in a private chat (whose id is the user's) and both in
\* one group chat, with the scheduled jobs and the proposals' buttons.
\* user_data belongs to the user of the update, whatever the chat.
GroupChat == 3
ChatsOf(u) == {u, GroupChat}

\* context.user_data in a handler of an update of user u in chat c: the
\* dict of the user; the chat does not enter.
SessionIn(uds, u, c) == uds[u]

JobRan(r) ==
    /\ user_data' = r.user_data
    /\ settings' = r.st
    /\ UNCHANGED <<CHANNEL_ID, ADMIN_CHAT_ID, update_queue, inflight>>

JobDailyPick ==
    \E pick \in DailyPickOutcomes :
        JobRan(send_daily_pick_to_admin(user_data, settings, ADMIN_CHAT_ID, pick))

\* random.choice raises on an empty list whatever the index would be
TopicIndexes(st) == IF st.topics = <<>> THEN {1} ELSE 1..Len(st.topics)

JobAiDraft ==
    \E i \in TopicIndexes(settings), draft \in DraftOutcomes :
        JobRan(generate_ai_draft(user_data, settings, ADMIN_CHAT_ID, i, draft))

CmdAiDraftIn(u, c) ==
    Ran(u, ai_draft_command(user_data[u], settings, c, ADMIN_CHAT_ID))

CmdAiSettingsIn(u, c) ==
    Ran(u, ai_settings_command(user_data[u], settings, c, ADMIN_CHAT_ID))

CmdAiTrendsIn(u, c) ==
    Ran(u, ai_trends_command(user_data[u], settings, c, ADMIN_CHAT_ID))

ProposalCallbacks ==
    {<<"daily", "sent", "1">>, <<"daily", "rejected", "1">>, <<"daily", "sent", None>>,
     <<"aidraft", "approve", "1">>, <<"aidraft", "reject", "1">>}

NextChats ==
    \/ \E u \in Chats : CmdNew(u)
    \/ \E u \in Chats : CmdCancel(u)
    \/ \E u \in Chats : Text(u, {<<"a">>})
    \/ \E u \in Chats : Callback(u, ProposalCallbacks)
    \/ \E u \in Chats : \E c \in ChatsOf(u) : CmdAiDraftIn(u, c)
    \/ \E u \in Chats : \E c \in ChatsOf(u) : CmdAiSettingsIn(u, c)
    \/ \E u \in Chats : \E c \in ChatsOf(u) : CmdAiTrendsIn(u, c)
    \/ JobDailyPick
    \/ JobAiDraft

\* The settings file is whatever is on disk at start: load_ai_settings
\* takes its topic list as it is, an empty one included.
InitChats ==
    /\ user_data = [c \in Chats |-> EmptyDict]
    /\ settings \in {DefaultSettings, [DefaultSettings EXCEPT !.topics = <<>>]}
    /\ CHANNEL_ID = "@channel"
    /\ ADMIN_CHAT_ID \in {0, 1, GroupChat}
    /\ update_queue = <<>>
    /\ inflight = Idle

SpecChats == InitChats /\ [][NextChats]_vars

\* The update loop of the application, for user 1 in the private chat.
\* main builds the application without concurrent updates: the loop takes
\* the next update off the queue only when the handler of the one before
\* has returned.  create_post is taken through its external calls one by
\* one; the other handlers run to their end in one step.
SerialUpdates ==
    {[kind |-> "command", arg |-> <<"new">>], [kind |-> "command", arg |-> <<"cancel">>],
     [kind |-> "text", arg |-> <<"a">>], [kind |-> "text", arg |-> LBL_FINISH],
     [kind |-> "photo", arg |-> <<"f1">>],
     [kind |-> "callback", arg |-> <<"cat", "c1">>],
     [kind |-> "callback", arg |-> <<"tag", "done">>]}

\* An update arrives from Telegram while others wait or a handler runs.
Arrive ==
    /\ Len(update_queue) < MaxQueue
    /\ \E upd \in SerialUpdates : update_queue' = Append(update_queue, upd)
    /\ UNCHANGED <<user_data, settings, CHANNEL_ID, ADMIN_CHAT_ID, inflight>>

\* process_update is awaited before the next update is taken.
LoopReadyMutant == update_queue # <<>>
LoopReady == update_queue # <<>> /\ inflight = Idle

\* The update at the head of the queue starts create_post.
StartsCreatePost(upd, ud) ==
    /\ upd.kind = "callback"
    /\ upd.arg = <<"tag", "done">>
    /\ ~Is(ud, "ai_draft_step", "tags")

\* The handler of the head update ran to its end and left r.
Handled(c, r) ==
    /\ Left(c, r)
    /\ update_queue' = Tail(update_queue)
    /\ UNCHANGED inflight

DispatchCommand(c) ==
    /\ LoopReady
    /\ Head(update_queue).kind = "command"
    /\ Handled(c, IF Head(update_queue).arg = <<"new">>
                  THEN start(user_data[c], settings)
                  ELSE cancel(user_data[c], settings))

DispatchText(c) ==
    /\ LoopReady
    /\ Head(update_queue).kind = "text"
    /\ LET raw == Head(update_queue).arg IN
       \E env \in TextEnvs(user_data[c], raw) :
          /\ BodyFits(user_data[c], raw)
          /\ Handled(c, handle_text(user_data[c], settings, c, ADMIN_CHAT_ID, CHANNEL_ID,
                                    raw, env))

DispatchPhoto(c) ==
    /\ LoopReady
    /\ Head(update_queue).kind = "photo"
    /\ \E env \in PhotoEnvs(user_data[c]) :
          Handled(c, handle_photo(user_data[c], settings, c, ADMIN_CHAT_ID, CHANNEL_ID,
                                  Head(update_queue).arg[1], env))

DispatchCallback(c) ==
    /\ LoopReady
    /\ Head(update_queue).kind = "callback"
    /\ ~StartsCreatePost(Head(update_queue), user_data[c])
    /\ LET data == Head(update_queue).arg IN
       \E env \in CallbackEnvs(user_data[c], data) :
          Handled(c, handle_callback(user_data[c], settings, c, ADMIN_CHAT_ID, CHANNEL_ID,
                                     data, env))

\* create_post from the create-post call on, on the session as it is now:
\* the call is made without a suspension; after an ok answer with a channel
\* configured the handler is suspended at the send to the channel.
PostNow(c) ==
    \E post \in {"ok", "raise", "notok", "badjson"} :
        IF post = "ok" /\ CHANNEL_ID # ""
        THEN /\ inflight' = [at |-> "broadcast", chat |-> c,
                             seen |-> IF inflight = Idle THEN user_data[c]
                                      ELSE inflight.seen,
                             payload |-> CreatePayload(user_data[c])]
             /\ UNCHANGED <<user_data, settings, CHANNEL_ID, ADMIN_CHAT_ID>>
        ELSE /\ inflight' = Idle
             /\ Left(c, create_post(user_data[c], settings, c, ADMIN_CHAT_ID, CHANNEL_ID,
                                    "ok", post, <<"e">>, "ok"))

\* tag done starts create_post: with a photo it is suspended at the
\* download of the photo's bytes.
DispatchDone(c) ==
    /\ LoopReady
    /\ StartsCreatePost(Head(update_queue), user_data[c])
    /\ update_queue' = Tail(update_queue)
    /\ IF Truthy(user_data[c], "photo_file_id")
       THEN /\ inflight' = [Idle EXCEPT !.at = "download", !.chat = c,
                                        !.seen = user_data[c]]
            /\ UNCHANGED <<user_data, settings, CHANNEL_ID, ADMIN_CHAT_ID>>
       ELSE PostNow(c)

\* The download returns (or raises) and create_post goes on.
ResumeDownload ==
    /\ inflight.at = "download"
    /\ UNCHANGED update_queue
    /\ LET c == inflight.chat IN
       \E getfile \in {"ok", "raise"} :
          IF getfile = "raise"
          THEN /\ inflight' = Idle
               /\ Left(c, create_post(user_data[c], settings, c, ADMIN_CHAT_ID, CHANNEL_ID,
                                      "raise", "ok", <<"e">>, "ok"))
          ELSE PostNow(c)

\* The send to the channel returns (or raises): clear and confirm.
ResumeBroadcast ==
    /\ inflight.at = "broadcast"
    /\ UNCHANGED update_queue
    /\ inflight' = Idle
    /\ LET c == inflight.chat IN
       \E chan \in {"ok", "raise"} :
          Left(c, Persisted(user_data[c], settings, c, ADMIN_CHAT_ID, CHANNEL_ID, chan))

NextSerial ==
    \/ Arrive
    \/ DispatchCommand(1)
    \/ DispatchText(1)
    \/ DispatchPhoto(1)
    \/ DispatchCallback(1)
    \/ DispatchDone(1)
    \/ ResumeDownload
    \/ ResumeBroadcast

InitSerial ==
    /\ user_data = [c \in Chats |-> EmptyDict]
    /\ settings = DefaultSettings
    /\ CHANNEL_ID \in {"", "@channel"}
    /\ ADMIN_CHAT_ID = 1
    /\ update_queue = <<>>
    /\ inflight = Idle

SpecSerial == InitSerial /\ [][NextSerial]_vars

-----------------------------------------------------------------------------
(* Properties of the manual wizard, stated on the session of chat 1 in     *)
(* every reachable state: the handlers are applied to the state as it is.  *)

\* The session keys other than k are the same in ud2 as in ud1.
SameExcept(ud1, ud2, ks) ==
    /\ (DOMAIN ud1) \ ks = (DOMAIN ud2) \ ks
    /\ \A k \in (DOMAIN ud1) \ ks : ud2[k] = ud1[k]

\* C1: back sets step to the element of STEPS one position before the
\* current step, staying at title from title or when no step is set, and
\* changes no session key other than step; the back label does the same.
BackMovesOneStepBack ==
    LET ud == user_data[1]
        step == GetD(ud, "step", "title")
        r == back(ud, settings, 1, ADMIN_CHAT_ID, CHANNEL_ID)
        viaLabel == handle_text(ud, settings, 1, ADMIN_CHAT_ID, CHANNEL_ID, LBL_BACK, EnvOK)
    IN /\ InList(step, STEPS)
       /\ \A i \in 1..Len(STEPS) :
            STEPS[i] = step => r.ud["step"] = (IF i = 1 THEN STEPS[1] ELSE STEPS[i - 1])
       /\ step = "title" => r.ud["step"] = "title"
       /\ SameExcept(ud, r.ud, {"step"})
       /\ r.st = settings
       /\ viaLabel.ud = r.ud

\* back from the category step, after a photo was stored, returns to image
\* and keeps the stored fields.
BackFromCategoryKeepsFields ==
    LET ud == user_data[1]
        r == back(ud, settings, 1, ADMIN_CHAT_ID, CHANNEL_ID)
    IN /\ Is(ud, "step", "category")
       /\ Is(ud, "photo_file_id", "f1")
       /\ Is(ud, "title", <<"a">>)
       /\ r.ud["step"] = "image"
       /\ r.ud["photo_file_id"] = "f1"

\* The members of l other than v, in the order of l.
RECURSIVE Others(_, _)
Others(l, v) ==
    IF l = <<>> THEN <<>>
    ELSE IF Head(l) = v THEN Others(Tail(l), v)
    ELSE <<Head(l)>> \o Others(Tail(l), v)

Members(l) == {l[i] : i \in 1..Len(l)}

ToggleIds == {"t1", "t2", "t9"}

\* C2: the tag-toggle callback for one id, delivered twice in a row, gives
\* back the selected list's membership and keeps the order of the other
\* members; from the empty list it gives the empty list.
ToggleTwiceRestores ==
    LET ud == user_data[1]
        selected == GetD(ud, "selected_tags", <<>>)
    IN \A v \in ToggleIds :
         LET r1 == handle_callback(ud, settings, 1, ADMIN_CHAT_ID, CHANNEL_ID,
                                   <<"tag", v>>, EnvOK)
             r2 == handle_callback(r1.ud, r1.st, 1, ADMIN_CHAT_ID, CHANNEL_ID,
                                   <<"tag", v>>, EnvOK)
         IN /\ Members(r2.ud["selected_tags"]) = Members(selected)
            /\ Others(r2.ud["selected_tags"], v) = Others(selected, v)
            /\ Members(r1.ud["selected_tags"]) # Members(selected)
            /\ selected = <<>> => r2.ud["selected_tags"] = <<>>

\* Two tags are selected and the first is toggled twice: it moves behind
\* the other, and the membership is the same.
ToggleTwiceOfFirstOfTwo ==
    LET ud == user_data[1]
        r1 == handle_callback(ud, settings, 1, ADMIN_CHAT_ID, CHANNEL_ID,
                              <<"tag", "t2">>, EnvOK)
        r2 == handle_callback(r1.ud, r1.st, 1, ADMIN_CHAT_ID, CHANNEL_ID,
                              <<"tag", "t2">>, EnvOK)
    IN /\ Is(ud, "selected_tags", <<"t2", "t1">>)
       /\ r1.ud["selected_tags"] = <<"t1">>
       /\ r2.ud["selected_tags"] = <<"t1", "t2">>

\* The done callback of the tags keyboard, on the session of chat 1.
Done(ud, env) ==
    handle_callback(ud, settings, 1, ADMIN_CHAT_ID, CHANNEL_ID, <<"tag", "done">>, env)

\* C4: when the create-post call raises or answers non-ok, every key of the
\* session is left as it was (and so is the settings file), one payload was
\* attempted, and a done signalled again attempts an identical payload.
PersistFailureKeepsSession ==
    LET ud == user_data[1] IN
    \A how \in {"raise", "notok"} :
        LET r == Done(ud, [EnvOK EXCEPT !.post = how]) IN
        /\ r.ud = ud
        /\ r.st = settings
        /\ Len(r.post) = 1
        /\ \A env2 \in PostEnvs :
             env2.getfile = "ok" => Done(r.ud, env2).post = r.post

\* A filled session at the tags step whose create-post call raises.
PersistRaisesAtTagsStep ==
    LET ud == user_data[1]
        r == Done(ud, [EnvOK EXCEPT !.post = "raise"])
    IN /\ Is(ud, "step", "tags")
       /\ Is(ud, "selected_tags", <<"t1">>)
       /\ Is(ud, "photo_file_id", "f1")
       /\ Is(ud, "description", <<"a">>)
       /\ r.ud = ud
       /\ InList("api:post:raise", r.tr)
       /\ InList("user:generic_error", r.tr)

\* The payload a done on session ud sends.
PayloadOf(ud) == Done(ud, EnvOK).post[1]

\* The payload of ud carries the fields of ud: the tag list, read back from
\* its comma-joined form, is the selected list in its order.
PayloadMatches(ud) ==
    LET p == PayloadOf(ud) IN
    /\ p.title = GetD(ud, "title", EmptyStr)
    /\ p.body = GetD(ud, "body", EmptyStr)
    /\ p.description = GetD(ud, "description", EmptyStr)
    /\ p.category_slug = GetD(ud, "category_slug", "")
    /\ Others(p.tag_slugs, ",") = GetD(ud, "selected_tags", <<>>)
    /\ p.image = (IF "photo_file_id" \in DOMAIN ud /\ ud["photo_file_id"] # None
                  THEN Download(ud["photo_file_id"]) ELSE <<>>)

\* C5: the payload sent to create-post has title, body, description,
\* category and image equal to the values accumulated in the session and
\* its tag list equal to the selected list in insertion order; a text
\* accepted at the title, body or desc step is what the payload then holds.
PayloadEqualsAccumulatedFields ==
    LET ud == user_data[1] IN
    /\ PayloadMatches(ud)
    /\ \A raw \in FreeTexts :
         LET ud2 == handle_text(ud, settings, 1, ADMIN_CHAT_ID, CHANNEL_ID, raw, EnvOK).ud
             p == PayloadOf(ud2)
             step == GetD(ud, "step", "title")
         IN /\ PayloadMatches(ud2)
            /\ step = "title" => p.title = Strip(raw)
            /\ step = "desc" => p.description = Strip(raw)
            /\ step = "body" =>
                 p.body = (IF GetD(ud, "body", EmptyStr) = <<>> THEN Strip(raw)
                           ELSE ud["body"] \o <<"\n", "\n">> \o Strip(raw))

\* Two body texts, a photo, and the tags chosen in the order t2, t1.
PayloadOfTwoTagsInInsertionOrder ==
    LET ud == user_data[1] IN
    /\ Is(ud, "step", "tags")
    /\ Is(ud, "body", <<"a", "\n", "\n", "a">>)
    /\ Is(ud, "photo_file_id", "f1")
    /\ Is(ud, "selected_tags", <<"t2", "t1">>)
    /\ PayloadOf(ud).tag_slugs = <<"t2", ",", "t1">>
    /\ PayloadOf(ud).image = Download("f1")

\* The tokens of tr that are in S, in the order of tr.
RECURSIVE Keep(_, _)
Keep(tr, S) ==
    IF tr = <<>> THEN <<>>
    ELSE IF Head(tr) \in S THEN <<Head(tr)>> \o Keep(Tail(tr), S)
    ELSE Keep(Tail(tr), S)

IsPrefix(a, b) == Len(a) <= Len(b) /\ SubSeq(b, 1, Len(a)) = a

PublishEffects == {"api:post:ok", "channel:post", "session:clear", "user:published"}

\* The publish effects of every run of done are a prefix of order, and are
\* all of order in a run that confirms to the user.
PublishRunsFollow(order) ==
    \A env \in PostEnvs :
        LET r == Done(user_data[1], env)
            did == Keep(r.tr, PublishEffects)
        IN /\ IsPrefix(did, order)
           /\ InList("user:published", r.tr) => did = order
           /\ env.getfile = "ok" /\ env.post = "ok" /\ env.chan = "ok" => did = order

BackendCalls ==
    {"api:meta:ok", "api:meta:raise", "api:post:ok", "api:post:raise", "api:post:notok",
     "api:post:badjson", "api:recent:ok", "api:recent:raise", "api:idea:ok",
     "api:idea:fail", "api:draft_create:ok", "api:draft_create:fail", "api:draft_get:ok",
     "api:draft_get:fail", "api:approve:ok", "api:approve:fail",
     "api:draft_reject:ok", "api:draft_reject:fail", "api:draft_regenerate:ok",
     "api:draft_regenerate:fail"}

\* Run r on session ud rejected its event: nothing changed, no backend
\* call, and the wrong-step message to the user.
Rejected(ud, r) ==
    /\ r.ud = ud
    /\ r.st = settings
    /\ Keep(r.tr, BackendCalls) = <<>>
    /\ InList("user:wrong_step", r.tr)

\* C10 as stated: at every manual-wizard step an event of a type the step
\* does not expect is rejected: a photo outside the image step, free text
\* in the image, category or tags step, a category choice outside the
\* category step, a tag toggle or tag done outside the tags step.
WrongTypeEventRejected ==
    LET ud == user_data[1]
        step == GetD(ud, "step", "title")
    IN "step" \in DOMAIN ud =>
         /\ step # "image" =>
              \A env \in MetaEnvs :
                  Rejected(ud, handle_photo(ud, settings, 1, ADMIN_CHAT_ID, CHANNEL_ID,
                                            "f1", env))
         /\ step \in {"image", "category", "tags"} =>
              \A raw \in FreeTexts :
                  Rejected(ud, handle_text(ud, settings, 1, ADMIN_CHAT_ID, CHANNEL_ID,
                                           raw, EnvOK))
         /\ step # "category" =>
              \A env \in MetaEnvs :
                  Rejected(ud, handle_callback(ud, settings, 1, ADMIN_CHAT_ID, CHANNEL_ID,
                                               <<"cat", "c1">>, env))
         /\ step # "tags" =>
              /\ Rejected(ud, handle_callback(ud, settings, 1, ADMIN_CHAT_ID, CHANNEL_ID,
                                              <<"tag", "t1">>, EnvOK))
              /\ \A env \in PostEnvs : Rejected(ud, Done(ud, env))

-----------------------------------------------------------------------------
(* Properties of the text router, under SpecRouter: sessions where prompt  *)
(* flags are pending beside the wizard's step.                             *)

AllTexts == FreeTexts \cup Labels

TextRun(ud, raw, env) ==
    handle_text(ud, settings, 1, ADMIN_CHAT_ID, CHANNEL_ID, raw, env)

\* What status shows after run r.
StatusAfter(r) == status(r.ud, r.st).shown

\* C3 as stated: a cancel in any reachable session state, as the /cancel
\* command or as the cancel label of the keyboard, removes every key of the
\* session, so that a status right after it reports the step title.
CancelClearsEverySession ==
    LET ud == user_data[1]
        viaCommand == cancel(ud, settings)
        viaLabel == TextRun(ud, LBL_CANCEL, EnvOK)
    IN /\ viaCommand.ud = EmptyDict
       /\ StatusAfter(viaCommand) = "title"
       /\ viaLabel.ud = EmptyDict
       /\ StatusAfter(viaLabel) = "title"

\* The outcomes of the call a prompt reply makes (each reply makes one
\* call): it works, or it fails.
PromptEnvs ==
    {EnvOK, [EnvOK EXCEPT !.idea = "fail", !.draft = "fail", !.saved = FALSE]}

\* The command a keyboard label stands for, run on session ud.
LabelCommand(ud, text, env) ==
    CASE text = LBL_NEW -> start(ud, settings)
      [] text = LBL_CANCEL -> cancel(ud, settings)
      [] text = LBL_BACK -> back(ud, settings, 1, ADMIN_CHAT_ID, CHANNEL_ID)
      [] text = LBL_SKIP -> skip_image(ud, settings, env.meta)
      [] text = LBL_STATUS -> status(ud, settings)
      [] text = LBL_RECENT -> show_recent_posts(ud, settings, env.recent)
      [] OTHER -> finish_text(ud, settings)

\* C7: a text goes to the first of: a pending AI-topic prompt (of /ai_post,
\* then of /ai_draft), a pending settings-edit prompt, a pending trend-add
\* prompt, the command of a keyboard label, the wizard's step handler.  A
\* prompt takes the text as its reply and resets its own flag only, so a
\* label sent while a prompt is pending runs no command.
TextDispatchedByPriority ==
    LET ud == user_data[1] IN
    \A raw \in AllTexts, env \in PromptEnvs :
        LET text == Strip(raw)
            r == TextRun(ud, raw, env)
        IN IF Is(ud, "ai_mode", "await_topic")
           THEN /\ r.ud = SetKey(ud, "ai_mode", None)
                /\ r.st = settings
                /\ Keep(r.tr, BackendCalls) = <<"api:idea:" \o env.idea>>
           ELSE IF Is(ud, "ai_draft_mode", "await_topic")
           THEN /\ r.ud = SetKey(SetKey(ud, "ai_draft_mode", None), "ai_draft_manual", None)
                /\ r.st = settings
                /\ Keep(r.tr, BackendCalls) = <<"api:draft_create:" \o env.draft>>
           ELSE IF GetD(ud, "ai_settings_mode", None)
                      \in {"edit_instructions", "add_trend", "add_topic"}
           THEN /\ r.ud = SetKey(ud, "ai_settings_mode", None)
                /\ r.st = (IF ~env.saved THEN settings
                           ELSE CASE ud["ai_settings_mode"] = "edit_instructions" ->
                                       [settings EXCEPT !.instructions = text]
                                  [] ud["ai_settings_mode"] = "add_trend" ->
                                       [settings EXCEPT !.trends = Append(@, text)]
                                  [] OTHER ->
                                       [settings EXCEPT !.topics = Append(@, text)])
           ELSE IF Is(ud, "ai_trend_mode", "add")
           THEN /\ r.ud = SetKey(ud, "ai_trend_mode", None)
                /\ r.st = (IF ~env.saved THEN settings
                           ELSE [settings EXCEPT !.trends = Append(@, text)])
           ELSE IF text \in Labels
           THEN Is(ud, "ai_draft_step", "image") \/ r = LabelCommand(ud, text, env)
           ELSE r = WizardStep(ud, settings, text)

\* Two prompts are pending beside the wizard's body step and the cancel
\* label arrives: the AI-topic prompt takes it, the settings prompt stays
\* pending and the wizard's session is kept.
CancelLabelConsumedByPrompt ==
    LET ud == user_data[1]
        r == TextRun(ud, LBL_CANCEL, EnvOK)
    IN /\ Is(ud, "ai_mode", "await_topic")
       /\ Is(ud, "ai_settings_mode", "edit_instructions")
       /\ Is(ud, "step", "body")
       /\ Is(r.ud, "ai_mode", None)
       /\ Is(r.ud, "ai_settings_mode", "edit_instructions")
       /\ Is(r.ud, "step", "body")
       /\ InList("api:idea:ok", r.tr)
       /\ ~InList("session:clear", r.tr)

-----------------------------------------------------------------------------
(* Properties of the steps the wizard and the AI-draft flow share, under   *)
(* SpecShared.                                                             *)

\* The keys in ks are the same in ud2 as in ud1: none written, none removed.
Kept(ud1, ud2, ks) ==
    \A k \in ks :
        /\ k \in DOMAIN ud1 <=> k \in DOMAIN ud2
        /\ k \in DOMAIN ud1 => ud2[k] = ud1[k]

\* The manual wizard's step and the fields its steps store.
ManualFields == {"step", "title", "body", "description", "photo_file_id", "category_slug"}

\* The AI-draft flow's last step on session ud with the photo choice made.
Finalized(ud, photo, env) ==
    finalize_ai_draft_post(SetKey(ud, "ai_draft_photo_file_id", photo), settings,
                           1, ADMIN_CHAT_ID, CHANNEL_ID, env.meta, env.approve, env.chan)

\* C8 as stated: an event of a shared step (category choice, tag done,
\* photo, skip as the label or as the /skip command) that the AI-draft step
\* flag matches is handled by the AI-draft flow, and the manual wizard's
\* step and fields are not modified.
AiDraftStepCheckedFirst ==
    LET ud == user_data[1] IN
    \A env \in FinalizeEnvs :
        /\ Is(ud, "ai_draft_step", "category") =>
             LET r == handle_callback(ud, settings, 1, ADMIN_CHAT_ID, CHANNEL_ID,
                                      <<"cat", "c1">>, env)
             IN /\ Is(r.ud, "ai_draft_category_slug", "c1")
                /\ Is(r.ud, "ai_draft_step", "tags")
                /\ Kept(ud, r.ud, ManualFields)
        /\ Is(ud, "ai_draft_step", "tags") =>
             LET r == Done(ud, env)
             IN /\ Is(r.ud, "ai_draft_step", "image")
                /\ r.post = <<>>
                /\ Kept(ud, r.ud, ManualFields)
        /\ Is(ud, "ai_draft_step", "image") =>
             LET byPhoto == handle_photo(ud, settings, 1, ADMIN_CHAT_ID, CHANNEL_ID,
                                         "f1", env)
                 byLabel == TextRun(ud, LBL_SKIP, env)
                 byCommand == skip_image(ud, settings, env.meta)
             IN /\ byPhoto = Finalized(ud, "f1", env)
                /\ Kept(ud, byPhoto.ud, ManualFields)
                /\ byLabel = Finalized(ud, None, env)
                /\ Kept(ud, byLabel.ud, ManualFields)
                /\ byCommand = Finalized(ud, None, env)
                /\ Kept(ud, byCommand.ud, ManualFields)

\* The keys the payload of the manual wizard is built from, and the keys
\* the AI-draft finalisation reads.
PayloadKeys ==
    {"title", "body", "description", "category_slug", "selected_tags", "photo_file_id"}
FinalizeKeys ==
    {"ai_draft_id", "ai_draft_category_slug", "selected_tags", "ai_draft_photo_file_id"}

\* C9 as stated: no action of the AI-draft flow writes or removes a key the
\* manual wizard's payload reads, and no action of the manual wizard writes
\* or removes a key the AI-draft finalisation reads.
FlowsKeepEachOthersKeys ==
    LET ud == user_data[1] IN
    \A env \in FinalizeEnvs :
        /\ Is(ud, "ai_draft_step", "category") =>
             Kept(ud, handle_callback(ud, settings, 1, ADMIN_CHAT_ID, CHANNEL_ID,
                                      <<"cat", "c1">>, env).ud, PayloadKeys)
        /\ Is(ud, "ai_draft_step", "tags") => Kept(ud, Done(ud, env).ud, PayloadKeys)
        /\ Is(ud, "ai_draft_step", "image") =>
             /\ Kept(ud, handle_photo(ud, settings, 1, ADMIN_CHAT_ID, CHANNEL_ID,
                                      "f1", env).ud, PayloadKeys)
             /\ Kept(ud, TextRun(ud, LBL_SKIP, env).ud, PayloadKeys)
        /\ ~Is(ud, "ai_draft_step", "category") /\ Is(ud, "step", "category") =>
             Kept(ud, handle_callback(ud, settings, 1, ADMIN_CHAT_ID, CHANNEL_ID,
                                      <<"cat", "c1">>, env).ud, FinalizeKeys)
        /\ ~Is(ud, "ai_draft_step", "tags") /\ Is(ud, "step", "tags") =>
             Kept(ud, handle_callback(ud, settings, 1, ADMIN_CHAT_ID, CHANNEL_ID,
                                      <<"tag", "t1">>, env).ud, FinalizeKeys)
        /\ ~Is(ud, "ai_draft_step", "image") /\ Is(ud, "step", "image") =>
             Kept(ud, handle_photo(ud, settings, 1, ADMIN_CHAT_ID, CHANNEL_ID,
                                   "f1", env).ud, FinalizeKeys)
        /\ \A raw \in FreeTexts : Kept(ud, TextRun(ud, raw, env).ud, FinalizeKeys)

-----------------------------------------------------------------------------
(* Properties of the wizard's steps, under Spec.                           *)

MetaCalls == {"api:meta:ok", "api:meta:raise"}

\* C11 as stated: a photo or a skip (label or /skip) in the image step
\* whose catalog fetch fails leaves step at image, tells the user of the
\* error, and fetches once only.
FetchFailureStaysInImage ==
    LET ud == user_data[1]
        env == [EnvOK EXCEPT !.meta = "raise"]
        StaysInImage(r) ==
            /\ Is(r.ud, "step", "image")
            /\ Keep(r.tr, MetaCalls) = <<"api:meta:raise">>
            /\ \E i \in 1..Len(r.tr) : r.tr[i] \in {"user:exc_text", "user:generic_error"}
    IN Is(ud, "step", "image") =>
         /\ StaysInImage(handle_photo(ud, settings, 1, ADMIN_CHAT_ID, CHANNEL_ID, "f1", env))
         /\ StaysInImage(skip_image(ud, settings, "raise"))
         /\ StaysInImage(TextRun(ud, LBL_SKIP, env))

\* C12: a skip (the /skip command or the skip label) at the image step
\* stores None as the image, sets step to category, changes no other key
\* and fetches the catalog exactly once; at any other step, or with no
\* step, it changes nothing and fetches nothing.
SkipAtImageStepOnly ==
    LET ud == user_data[1] IN
    \A env \in MetaEnvs :
        LET byCommand == skip_image(ud, settings, env.meta)
            byLabel == TextRun(ud, LBL_SKIP, env)
        IN /\ byLabel = byCommand
           /\ byCommand.st = settings
           /\ IF Is(ud, "step", "image")
              THEN /\ Is(byCommand.ud, "photo_file_id", None)
                   /\ Is(byCommand.ud, "step", "category")
                   /\ SameExcept(ud, byCommand.ud, {"photo_file_id", "step"})
                   /\ Len(Keep(byCommand.tr, MetaCalls)) = 1
              ELSE /\ byCommand.ud = ud
                   /\ Keep(byCommand.tr, BackendCalls) = <<>>

\* A skip at the image step, after title, body and description were given.
SkipAfterDescription ==
    LET ud == user_data[1]
        r == skip_image(ud, settings, "ok")
    IN /\ Is(ud, "step", "image")
       /\ Is(ud, "description", <<"a">>)
       /\ "photo_file_id" \notin DOMAIN ud
       /\ Is(r.ud, "photo_file_id", None)
       /\ Is(r.ud, "step", "category")
       /\ r.tr = <<"api:meta:ok", "user:choose_category">>

\* C13: a free text in step title is stored as the title and moves step to
\* body; a free text in step desc is stored as the description and moves
\* step to image; no other key of the session changes.
TitleAndDescTextsStored ==
    LET ud == user_data[1]
        step == GetD(ud, "step", "title")
    IN \A raw \in FreeTexts :
         LET r == TextRun(ud, raw, EnvOK) IN
         /\ step = "title" =>
              /\ Is(r.ud, "title", Strip(raw))
              /\ Is(r.ud, "step", "body")
              /\ SameExcept(ud, r.ud, {"title", "step"})
              /\ r.st = settings
         /\ step = "desc" =>
              /\ Is(r.ud, "description", Strip(raw))
              /\ Is(r.ud, "step", "image")
              /\ SameExcept(ud, r.ud, {"description", "step"})
              /\ r.st = settings

\* A description arrives after the title and the body were given.
DescriptionAfterBody ==
    LET ud == user_data[1]
        r == TextRun(ud, <<" ", "b", " ">>, EnvOK)
    IN /\ Is(ud, "step", "desc")
       /\ Is(ud, "title", <<"a">>)
       /\ Is(ud, "body", <<"a">>)
       /\ "description" \notin DOMAIN ud
       /\ Is(r.ud, "description", <<"b">>)
       /\ Is(r.ud, "step", "image")
       /\ Is(r.ud, "title", <<"a">>)

\* C14: in step body a free text is appended to the body: the first text
\* is the body, a later text t makes body b into b, a blank line, t; step
\* stays body and no other key changes; two texts in a row give the first,
\* a blank line, the second.
BodyTextsAppended ==
    LET ud == user_data[1]
        b == GetD(ud, "body", EmptyStr)
    IN Is(ud, "step", "body") =>
         \A raw1 \in FreeTexts, raw2 \in FreeTexts :
             LET r1 == TextRun(ud, raw1, EnvOK)
                 r2 == TextRun(r1.ud, raw2, EnvOK)
                 after1 == IF b = <<>> THEN Strip(raw1)
                           ELSE b \o <<"\n", "\n">> \o Strip(raw1)
             IN /\ Is(r1.ud, "body", after1)
                /\ Is(r1.ud, "step", "body")
                /\ SameExcept(ud, r1.ud, {"body"})
                /\ Is(r2.ud, "body", after1 \o <<"\n", "\n">> \o Strip(raw2))
                /\ Is(r2.ud, "step", "body")

\* The body holds one text and a second one arrives.
SecondBodyText ==
    LET ud == user_data[1]
        r == TextRun(ud, <<" ", "b", " ">>, EnvOK)
    IN /\ Is(ud, "step", "body")
       /\ Is(ud, "body", <<"a">>)
       /\ Is(r.ud, "body", <<"a", "\n", "\n", "b">>)
       /\ Is(r.ud, "step", "body")

\* A text of n characters.
TextOfLen(n) == [i \in 1..n |-> "x"]

\* Response texts shorter than, as long as and longer than the limit.
RespTexts ==
    {TextOfLen(3), TextOfLen(ErrTextLimit), TextOfLen(ErrTextLimit + 1),
     TextOfLen(ErrTextLimit + 500)}

\* C15: when create-post answers non-ok the session is retained, the user
\* gets the generic failure text and not the response text, the
\* administrator, when one is configured, gets the response text cut to
\* the limit (and an ellipsis), and there is no broadcast and no clear.
NonOkReportedToAdminOnly ==
    LET ud == user_data[1] IN
    \A body \in RespTexts :
        LET r == Done(ud, [EnvOK EXCEPT !.post = "notok", !.resptext = body])
            n == IF Len(body) > ErrTextLimit THEN ErrTextLimit ELSE Len(body)
        IN /\ r.ud = ud
           /\ InList("user:generic_error", r.tr)
           /\ ~InList("user:exc_text", r.tr)
           /\ Keep(r.tr, {"channel:post", "channel:raise", "session:clear",
                          "user:published"}) = <<>>
           /\ IF ADMIN_CHAT_ID # 0
              THEN /\ InList("admin:exc_text", r.tr)
                   /\ SubSeq(r.admin_text, 1, n) = SubSeq(body, 1, n)
                   /\ Len(r.admin_text) <= ErrTextLimit + 3
                   /\ Len(body) <= ErrTextLimit => r.admin_text = body
              ELSE /\ ~InList("admin:exc_text", r.tr)
                   /\ r.admin_text = <<>>

\* A filled session, an administrator, and a non-ok answer one character
\* longer than the limit.
NonOkWithLongResponse ==
    LET ud == user_data[1]
        r == Done(ud, [EnvOK EXCEPT !.post = "notok",
                                    !.resptext = TextOfLen(ErrTextLimit + 1)])
    IN /\ ADMIN_CHAT_ID = 1
       /\ Is(ud, "step", "tags")
       /\ Is(ud, "title", <<"a">>)
       /\ Is(ud, "selected_tags", <<"t1">>)
       /\ r.ud = ud
       /\ Len(r.admin_text) = ErrTextLimit + 3
       /\ r.tr = <<"user:posting", "api:post:notok", "admin:exc_text", "user:generic_error">>

\* C16 as stated: when the broadcast to the channel fails after a
\* successful persist, the handler still ends normally, the failure goes to
\* the administrator only and the user is shown no error.
BroadcastFailureToAdminOnly ==
    LET ud == user_data[1]
        r == Done(ud, [EnvOK EXCEPT !.chan = "raise"])
    IN CHANNEL_ID # "" /\ Is(ud, "step", "tags") /\ "title" \in DOMAIN ud =>
         /\ InList("api:post:ok", r.tr)
         /\ InList("channel:raise", r.tr)
         /\ ~InList("raise", r.tr)
         /\ ADMIN_CHAT_ID # 0 => InList("admin:exc_text", r.tr)
         /\ ~InList("user:generic_error", r.tr)
         /\ ~InList("user:exc_text", r.tr)

\* The outcomes where every external call fails that can.
EnvFail ==
    [idea |-> "fail", draft |-> "fail", saved |-> FALSE, recent |-> "raise",
     meta |-> "raise", approve |-> "fail", chan |-> "raise", getfile |-> "ok",
     post |-> "raise", draftget |-> "fail", send |-> "ok", resptext |-> <<"e">>]

FailureEnvs ==
    {EnvFail, [EnvFail EXCEPT !.post = "notok"],
     [EnvFail EXCEPT !.draftget = "ok"], [EnvFail EXCEPT !.meta = "ok"],
     [EnvFail EXCEPT !.meta = "ok", !.approve = "ok"]}

\* C17 as stated: on no failure path does a message to the user carry the
\* exception's text or the backend's error body.
NoExceptionTextToUser ==
    LET ud == user_data[1]
        Clean(r) == ~InList("user:exc_text", r.tr)
    IN \A env \in FailureEnvs :
         /\ Clean(Done(ud, env))
         /\ Clean(TextRun(ud, LBL_RECENT, env))
         /\ Clean(skip_image(ud, settings, env.meta))
         /\ Clean(TextRun(ud, LBL_SKIP, env))
         /\ Clean(handle_photo(ud, settings, 1, ADMIN_CHAT_ID, CHANNEL_ID, "f1", env))
         /\ \A data \in {<<"cat", "c1">>, <<"aidraft", "approve", "1">>,
                         <<"aidraft", "reject", "1">>, <<"aidraft", "regenerate", "1">>} :
                Clean(handle_callback(ud, settings, 1, ADMIN_CHAT_ID, CHANNEL_ID, data, env))

-----------------------------------------------------------------------------
(* Properties of the workflows of one chat, under SpecRouter.              *)

\* Key k of session ud is set: present and not None.
IsSet(ud, k) == k \in DOMAIN ud /\ ud[k] # None

\* The workflows active in session ud, by their flags.
ActiveWorkflows(ud) ==
    (IF IsSet(ud, "step") THEN {"manual"} ELSE {})
    \cup (IF IsSet(ud, "ai_draft_step") THEN {"ai_draft"} ELSE {})
    \cup (IF IsSet(ud, "ai_mode") \/ IsSet(ud, "ai_draft_mode") THEN {"ai_topic"} ELSE {})
    \cup (IF IsSet(ud, "ai_settings_mode") \/ IsSet(ud, "ai_trend_mode")
          THEN {"settings"} ELSE {})

\* C18 as stated: in every reachable session at most one of the manual
\* step flag, the AI-draft step flag, an AI-topic prompt flag and a
\* settings or trend prompt flag is set.
AtMostOneWorkflowActive ==
    Cardinality(ActiveWorkflows(user_data[1])) <= 1

\* C19 as stated: an operation that starts one workflow, run while a
\* different workflow is active, is refused and leaves the session as it is.
StartRefusedWhileOtherActive ==
    LET ud == user_data[1]
        others(w) == ActiveWorkflows(ud) \ {w}
        approve == handle_callback(ud, settings, 1, ADMIN_CHAT_ID, CHANNEL_ID,
                                   <<"aidraft", "approve", "1">>, EnvOK)
        edit == handle_callback(ud, settings, 1, ADMIN_CHAT_ID, CHANNEL_ID,
                                <<"aisettings", "edit_instructions">>, EnvOK)
    IN /\ others("manual") # {} => start(ud, settings).ud = ud
       /\ others("ai_topic") # {} =>
            /\ ai_post_command(ud, settings).ud = ud
            /\ ai_draft_command(ud, settings, 1, ADMIN_CHAT_ID).ud = ud
       /\ others("ai_draft") # {} => approve.ud = ud
       /\ others("settings") # {} => edit.ud = ud

-----------------------------------------------------------------------------
(* The wizard's step flag, under Spec.                                     *)

\* C20: in every reachable session the step key is absent or one of the
\* six steps, so that back finds the step in STEPS and does not raise, and
\* status shows one of the six steps.
StepIsOneOfSteps ==
    LET ud == user_data[1] IN
    /\ "step" \in DOMAIN ud => InList(ud["step"], STEPS)
    /\ ~InList("raise", back(ud, settings, 1, ADMIN_CHAT_ID, CHANNEL_ID).tr)
    /\ InList(status(ud, settings).shown, STEPS)

\* The finish-text label moved the wizard to desc and back works from there.
StepDescAfterBody ==
    LET ud == user_data[1] IN
    /\ Is(ud, "step", "desc")
    /\ Is(ud, "body", <<"a", "\n", "\n", "a">>)
    /\ "description" \notin DOMAIN ud
    /\ back(ud, settings, 1, ADMIN_CHAT_ID, CHANNEL_ID).shown = "body"

-----------------------------------------------------------------------------
(* The end of a workflow, under SpecShared.                                *)

\* C21 as stated: after a successful publish at the last step of a
\* workflow, the create-post of the manual wizard or the approve of the
\* AI-draft flow, no key remains in the session.
PublishResetsSession ==
    LET ud == user_data[1]
        Reset(r) == InList("user:published", r.tr) => r.ud = EmptyDict
    IN /\ Reset(Done(ud, EnvOK))
       /\ Reset(handle_photo(ud, settings, 1, ADMIN_CHAT_ID, CHANNEL_ID, "f1", EnvOK))
       /\ Reset(TextRun(ud, LBL_SKIP, EnvOK))

-----------------------------------------------------------------------------
(* The scheduled jobs, under SpecChats.                                    *)

\* Every run of either job on the current state, one per outcome of its
\* backend call.
JobRuns ==
    {send_daily_pick_to_admin(user_data, settings, ADMIN_CHAT_ID, pick) :
        pick \in DailyPickOutcomes}
    \cup {generate_ai_draft(user_data, settings, ADMIN_CHAT_ID, i, draft) :
            i \in TopicIndexes(settings), draft \in DraftOutcomes}

\* C22: with no administrator destination configured, a run of either
\* scheduled job does nothing: no backend call, no message, no request, no
\* button, and every session and the settings file are as before.
UnconfiguredJobIsNoOp ==
    ADMIN_CHAT_ID = 0 =>
        \A r \in JobRuns :
            /\ r.tr = <<>>
            /\ r.sent = <<>>
            /\ r.buttons = {}
            /\ r.user_data = user_data
            /\ r.st = settings

\* C22 witness: no administrator is configured, a wizard is under way in
\* one chat, and the jobs run without any effect.
UnconfiguredJobWithOpenWizard ==
    /\ ADMIN_CHAT_ID = 0
    /\ Is(user_data[1], "step", "body")
    /\ \A r \in JobRuns : r.tr = <<>> /\ r.user_data = user_data

AdminTold(tr) ==
    \E i \in 1..Len(tr) :
        tr[i] \in {"admin:exc_text", "admin:network_error", "admin:daily_proposal",
                   "admin:draft_proposal"}

\* C23 as stated: with an administrator configured, a run of either
\* scheduled job, for every outcome of its backend call and every content of
\* the settings file (an empty topic list included), raises nothing out of
\* the callback and ends with a message to the administrator.
ScheduledJobEndsNormally ==
    ADMIN_CHAT_ID # 0 =>
        \A r \in JobRuns : ~InList("raise", r.tr) /\ AdminTold(r.tr)

\* C23, the periodic AI draft generation alone on the built-in topic list:
\* there every outcome of the draft-create call ends in a message to the
\* administrator, so the exceptions above are those of the empty topic list
\* and of a daily pick whose post is null.
DraftJobReportsOnBuiltInTopics ==
    ADMIN_CHAT_ID # 0 /\ settings.topics # <<>> =>
        \A i \in TopicIndexes(settings), draft \in DraftOutcomes :
            LET r == generate_ai_draft(user_data, settings, ADMIN_CHAT_ID, i, draft)
            IN ~InList("raise", r.tr) /\ AdminTold(r.tr)

\* Every press of a proposal's button by user u on the current state.
Press(u, data, env) ==
    handle_callback(user_data[u], settings, u, ADMIN_CHAT_ID, CHANNEL_ID, data, env)

\* C24: a run of a scheduled job leaves every session as it was; of the
\* buttons of the proposals only the approval of an AI draft writes into a
\* session, and it sets ai_draft_id and ai_draft_step in the session of the
\* user who pressed, nothing else.
JobsLeaveSessionsToButtons ==
    /\ \A r \in JobRuns : r.user_data = user_data
    /\ \A u \in Chats, data \in ProposalCallbacks :
         \A env \in CallbackEnvs(user_data[u], data) :
            LET r == Press(u, data, env) IN
            \/ r.ud = user_data[u]
            \/ /\ data = <<"aidraft", "approve", "1">>
               /\ r.ud = SetKey(SetKey(user_data[u], "ai_draft_id", 1),
                                "ai_draft_step", "category")
    /\ \A u \in Chats :
         LET r == Press(u, <<"aidraft", "approve", "1">>, EnvOK) IN
         Is(r.ud, "ai_draft_id", 1) /\ Is(r.ud, "ai_draft_step", "category")

\* C24 witness: the administrator has approved a draft that a job proposed
\* (the job offers the approve button on this state too); the other user's
\* session is still empty.
ApprovedAfterProposal ==
    /\ ADMIN_CHAT_ID = 1
    /\ Is(user_data[1], "ai_draft_id", 1)
    /\ Is(user_data[1], "ai_draft_step", "category")
    /\ user_data[2] = EmptyDict
    /\ \E r \in JobRuns :
         <<"aidraft", "approve", "1">> \in r.buttons /\ r.user_data = user_data

-----------------------------------------------------------------------------
(* The administrator's commands, under SpecChats.                          *)

\* The three admin-gated commands of user u sent in chat c.
GatedCommands(u, c) ==
    {ai_draft_command(user_data[u], settings, c, ADMIN_CHAT_ID),
     ai_settings_command(user_data[u], settings, c, ADMIN_CHAT_ID),
     ai_trends_command(user_data[u], settings, c, ADMIN_CHAT_ID)}

\* C25: /ai_draft, /ai_settings and /ai_trends sent in a chat that is not
\* the administrator destination, or with no administrator configured, are
\* refused: the only effect is the refusal text; no prompt flag is set, no
\* backend call is made and the settings file is unchanged.
GatedCommandsRefusedElsewhere ==
    \A u \in Chats : \A c \in ChatsOf(u) :
        (ADMIN_CHAT_ID = 0 \/ c # ADMIN_CHAT_ID) =>
            \A r \in GatedCommands(u, c) :
                /\ r.tr = <<"user:admin_only">>
                /\ r.ud = user_data[u]
                /\ r.st = settings
                /\ r.post = <<>>

\* C25 witness: the administrator destination is chat 1 and user 2, with a
\* wizard under way, sends the commands in the private chat and in the
\* group: all are refused, while /ai_draft of user 1 in chat 1 sets its
\* prompt flag.
OtherUserRefused ==
    /\ ADMIN_CHAT_ID = 1
    /\ Is(user_data[2], "step", "body")
    /\ \A c \in ChatsOf(2) : \A r \in GatedCommands(2, c) : r.tr = <<"user:admin_only">>
    /\ Is(ai_draft_command(user_data[1], settings, 1, ADMIN_CHAT_ID).ud,
          "ai_draft_mode", "await_topic")

-----------------------------------------------------------------------------
(* The sessions of different chats, under SpecChats.                       *)

\* The sessions after user u's event in chat c left r.
AfterEvent(u, r) == [user_data EXCEPT ![u] = r.ud]

\* C27 as stated: the session is partitioned by chat: an event in chat c
\* (here /cancel or a text of user u, who has a wizard at the body step)
\* reads and modifies the session of chat c only; the session the same
\* user has in another chat d is left as it was.
ChatSessionsDisjoint ==
    \A u \in Chats : \A c \in ChatsOf(u) : \A d \in ChatsOf(u) \ {c} :
      Is(user_data[u], "step", "body") =>
        \A r \in {cancel(SessionIn(user_data, u, c), settings),
                  handle_text(SessionIn(user_data, u, c), settings, c, ADMIN_CHAT_ID,
                              CHANNEL_ID, <<"a">>, EnvOK)} :
            SessionIn(AfterEvent(u, r), u, d) = SessionIn(user_data, u, d)

\* Beside C27: the sessions of different users are disjoint: a step that
\* changes one user's session leaves the other's as it was.
UserSessionsDisjoint ==
    [][\A u \in Chats : user_data'[u] # user_data[u] =>
          \A v \in Chats \ {u} : user_data'[v] = user_data[v]]_vars

-----------------------------------------------------------------------------
(* The finish-text label, the new-article operation and the tag done       *)
(* callback, under Spec.                                                   *)

\* C28 as stated: the finish-text label moves the wizard from body to desc
\* when the step is body and the body is not empty; in every other step,
\* and with an empty body, it leaves the step as it was.
FinishTextMovesBodyStepOnly ==
    LET ud == user_data[1]
        r == TextRun(ud, LBL_FINISH, EnvOK)
    IN IF Is(ud, "step", "body") /\ Truthy(ud, "body")
       THEN Is(r.ud, "step", "desc")
       ELSE Kept(ud, r.ud, {"step"})

\* C29 as stated, under SpecRouter: the new-article operation, as the /new
\* command or as the new label of the keyboard, from any session state
\* leaves the session with exactly one key, step = title.
NewLeavesOnlyStepTitle ==
    LET ud == user_data[1]
        fresh == [step |-> "title"]
    IN /\ start(ud, settings).ud = fresh
       /\ \A env \in PromptEnvs : TextRun(ud, LBL_NEW, env).ud = fresh

\* C30 as stated: the tag done callback sends a create-post request only
\* when the wizard is in the tags step; with no wizard started, in an
\* earlier step, or delivered again after a publish cleared the session, it
\* sends none.
DoneOutsideTagsPersistsNothing ==
    LET ud == user_data[1] IN
    /\ ~Is(ud, "step", "tags") =>
          \A env \in PostEnvsOf(ud) : Done(ud, env).post = <<>>
    /\ Is(ud, "step", "tags") =>
          LET r == Done(ud, EnvOK) IN
          InList("user:published", r.tr) => Done(r.ud, EnvOK).post = <<>>

-----------------------------------------------------------------------------
(* The update loop, under SpecSerial.                                      *)

\* C26: while create_post is suspended at an external call, no other
\* update of the chat is handled: the session is still the one create_post
\* found when it started, whatever waits in the queue (a cancel included),
\* and the article it has posted is that session's.
SuspendedHandlerKeepsSession ==
    inflight # Idle =>
        /\ user_data[inflight.chat] = inflight.seen
        /\ inflight.at = "broadcast" => inflight.payload = CreatePayload(inflight.seen)

\* C26 witness: create_post is suspended at the send to the channel, having
\* posted the article with its title, and a cancel waits in the queue.
CancelWaitsBehindCreatePost ==
    /\ inflight.at = "broadcast"
    /\ Is(inflight.seen, "title", <<"a">>)
    /\ Is(inflight.seen, "step", "tags")
    /\ update_queue # <<>>
    /\ Head(update_queue) = [kind |-> "command", arg |-> <<"cancel">>]
    /\ user_data[1] = inflight.seen

-----------------------------------------------------------------------------
(* The category choice and the AI-draft flow's keys, under SpecShared.     *)

\* A category choice on session ud with catalog outcome meta.
Chosen(ud, meta) ==
    handle_callback(ud, settings, 1, ADMIN_CHAT_ID, CHANNEL_ID, <<"cat", "c1">>,
                    [EnvOK EXCEPT !.meta = meta])

\* C31 as stated: when a category choice moves a flow from its category
\* step into its tags step (step, or ai_draft_step, becomes tags), no tag
\* is selected at that moment, whether the tag catalog fetch succeeded or
\* raised.
TagsStepStartsUnselected ==
    LET ud == user_data[1] IN
    Is(ud, "step", "category") \/ Is(ud, "ai_draft_step", "category") =>
        \A meta \in {"ok", "raise"} :
            LET r == Chosen(ud, meta) IN
            /\ Is(r.ud, "step", "tags") \/ Is(r.ud, "ai_draft_step", "tags")
            /\ GetD(r.ud, "selected_tags", <<>>) = <<>>

\* C32: in every reachable session, ai_draft_step, when set, is category,
\* tags or image and comes with a draft id; in tags and image the draft's
\* category is set too; so a photo or the skip label at the image step
\* never ends at the incomplete-data reply of finalize_ai_draft_post.
AiDraftKeysComplete ==
    LET ud == user_data[1] IN
    /\ "ai_draft_step" \in DOMAIN ud =>
          /\ ud["ai_draft_step"] \in {"category", "tags", "image"}
          /\ "ai_draft_id" \in DOMAIN ud
          /\ ud["ai_draft_id"] # 0
    /\ Is(ud, "ai_draft_step", "tags") \/ Is(ud, "ai_draft_step", "image") =>
          Truthy(ud, "ai_draft_category_slug")
    /\ Is(ud, "ai_draft_step", "image") =>
          \A env \in FinalizeEnvs :
              /\ ~InList("user:incomplete",
                         handle_photo(ud, settings, 1, ADMIN_CHAT_ID, CHANNEL_ID, "f1", env).tr)
              /\ ~InList("user:incomplete", TextRun(ud, LBL_SKIP, env).tr)

\* C32 witness: the AI-draft flow is at its image step, beside a manual
\* wizard, and a photo publishes the draft.
AiDraftAtImageBesideWizard ==
    LET ud == user_data[1] IN
    /\ Is(ud, "ai_draft_step", "image")
    /\ Is(ud, "step", "body")
    /\ InList("user:published",
              handle_photo(ud, settings, 1, ADMIN_CHAT_ID, CHANNEL_ID, "f1", EnvOK).tr)

-----------------------------------------------------------------------------
(* The session after a successful create-post call, under Spec.            *)

\* C33 as stated: when the create-post call of a done at the tags step
\* succeeds, the session is empty once the handler has ended, whether the
\* send to the channel succeeded or raised, and a done issued again does
\* not post the same article a second time.
PersistedSessionCleared ==
    LET ud == user_data[1] IN
    Is(ud, "step", "tags") /\ "title" \in DOMAIN ud =>
        \A chan \in {"ok", "raise"} :
            LET r == Done(ud, [EnvOK EXCEPT !.chan = chan]) IN
            InList("api:post:ok", r.tr) =>
                /\ r.ud = EmptyDict
                /\ Done(r.ud, EnvOK).post # r.post

-----------------------------------------------------------------------------
(* The decisions on a daily pick, under SpecChats.                         *)

\* The outcomes of the calls of a decision on a daily pick.
DailyEnvs ==
    {[EnvOK EXCEPT !.dailyget = g, !.mark = m, !.chan = c] :
        g \in DailyNextOutcomes, m \in {"ok", "raise"}, c \in {"ok", "raise"}}

\* C34: on a sent decision for pick 1 a post goes to the channel only when
\* daily-next answered ok with pick id 1, and it is the post of that
\* answer; when daily-next raised, answered not ok or answered another
\* pick id, nothing goes to the channel.
SentBroadcastsDecidedPick ==
    \A u \in Chats, env \in DailyEnvs :
        LET r == Press(u, <<"daily", "sent", "1">>, env)
            g == env.dailyget
        IN /\ InList("channel:post", r.tr) <=> r.caption # <<>>
           /\ r.caption # <<>> =>
                 g.status = "ok" /\ g.pick_id = 1 /\ r.caption = <<g.post>>
           /\ (g.status = "ok" /\ g.pick_id = 1 /\ g.post # None /\ env.mark = "ok"
                  /\ env.chan = "ok" /\ CHANNEL_ID # "") => r.caption = <<g.post>>

\* C34 witness: the administrator, with a draft approved, decides sent:
\* the queued pick's post goes to the channel when daily-next answers pick
\* 1, and nothing does when it answers pick 2.
SentDecisionByAdministrator ==
    /\ ADMIN_CHAT_ID = 1
    /\ Is(user_data[1], "ai_draft_step", "category")
    /\ Press(1, <<"daily", "sent", "1">>, EnvOK).caption = <<"post1">>
    /\ Press(1, <<"daily", "sent", "1">>,
             [EnvOK EXCEPT !.dailyget = DailyNext("ok", 2, "post2")]).caption = <<>>

\* The calls of a decision, in their order: the backend's and the channel's.
DailyCalls ==
    {"api:daily_next:ok", "api:daily_next:raise", "api:daily_mark:ok",
     "api:daily_mark:raise", "channel:post", "channel:raise"}

\* The position of the first x in tr, 0 when it is not there.
FirstAt(tr, x) ==
    IF InList(x, tr) THEN CHOOSE i \in 1..Len(tr) : tr[i] = x /\ \A j \in 1..(i - 1) : tr[j] # x
    ELSE 0

\* C35: in a decision on a daily pick the mark call comes before any send
\* to the channel; when the mark call raises, nothing is sent to the
\* channel; a decision that is neither sent nor rejected makes no backend
\* call and sends nothing to the channel.
MarkPrecedesBroadcast ==
    \A u \in Chats, env \in DailyEnvs :
        /\ \A action \in {"sent", "rejected"} :
              LET tr == Press(u, <<"daily", action, "1">>, env).tr IN
              /\ \A x \in {"channel:post", "channel:raise"} :
                    InList(x, tr) =>
                        /\ InList("api:daily_mark:ok", tr)
                        /\ FirstAt(tr, "api:daily_mark:ok") < FirstAt(tr, x)
              /\ env.mark = "raise" =>
                    /\ InList("api:daily_mark:raise", tr)
                    /\ ~InList("channel:post", tr)
                    /\ ~InList("channel:raise", tr)
        /\ Keep(Press(u, <<"daily", "later", "1">>, env).tr, DailyCalls) = <<>>

\* C35 witness: the administrator decides sent while a topic prompt is
\* pending: the pick is fetched, marked and then its post sent to the
\* channel; with a failing mark call the handler ends after the mark.
SentMarkedThenBroadcast ==
    /\ ADMIN_CHAT_ID = 1
    /\ Is(user_data[1], "ai_draft_mode", "await_topic")
    /\ Keep(Press(1, <<"daily", "sent", "1">>, EnvOK).tr, DailyCalls)
          = <<"api:daily_next:ok", "api:daily_mark:ok", "channel:post">>
    /\ Keep(Press(1, <<"daily", "sent", "1">>, [EnvOK EXCEPT !.mark = "raise"]).tr, DailyCalls)
          = <<"api:daily_next:ok", "api:daily_mark:raise">>

\* C36 as stated: a sent decision leaves the pick marked sent at the
\* backend only when its post went to the channel in the same decision:
\* not when the post of the decided pick could not be obtained, nor when
\* the channel is not configured.
MarkedSentOnlyWithBroadcast ==
    ADMIN_CHAT_ID # 0 =>
        \A u \in Chats, env \in DailyEnvs :
            LET tr == Press(u, <<"daily", "sent", "1">>, env).tr IN
            InList("api:daily_mark:ok", tr) => InList("channel:post", tr)

-----------------------------------------------------------------------------
(* The approval of an AI draft, under SpecShared.                          *)

\* The outcomes of the calls of an approve: the draft fetch, the catalog
\* fetch and the send of the category keyboard.
ApproveEnvs ==
    {[EnvOK EXCEPT !.draftget = g, !.meta = m, !.send = x] :
        g \in {"ok", "fail"}, m \in {"ok", "raise"}, x \in {"ok", "raise"}}

\* C37: an approve writes ai_draft_id and ai_draft_step = category, and
\* nothing else, when the draft fetch and the catalog fetch succeeded and
\* the category keyboard was sent; when any of the three failed the session
\* is as it was before, so no AI-draft flow was started by it.
ApproveWritesAfterAllSucceeded ==
    LET ud == user_data[1] IN
    \A env \in ApproveEnvs :
        LET r == handle_callback(ud, settings, 1, ADMIN_CHAT_ID, CHANNEL_ID,
                                 <<"aidraft", "approve", "1">>, env)
        IN IF env.draftget = "ok" /\ env.meta = "ok" /\ env.send = "ok"
           THEN /\ r.ud = SetKey(SetKey(ud, "ai_draft_id", 1), "ai_draft_step", "category")
                /\ Keep(r.tr, {"api:draft_get:ok", "api:meta:ok", "user:choose_category"})
                      = <<"api:draft_get:ok", "api:meta:ok", "user:choose_category">>
           ELSE /\ r.ud = ud
                /\ ~InList("user:choose_category", r.tr)
                /\ InList("user:exc_text", r.tr)

\* C37 witness: with a wizard at its body step and no AI-draft flow, an
\* approve whose catalog fetch raises leaves the session as it is, and one
\* whose calls succeed starts the flow.
ApproveBesideWizard ==
    LET ud == user_data[1]
        approve(env) == handle_callback(ud, settings, 1, ADMIN_CHAT_ID, CHANNEL_ID,
                                        <<"aidraft", "approve", "1">>, env)
    IN /\ Is(ud, "step", "body")
       /\ "ai_draft_step" \notin DOMAIN ud
       /\ approve([EnvOK EXCEPT !.meta = "raise"]).ud = ud
       /\ Is(approve(EnvOK).ud, "ai_draft_step", "category")

====
